---- MODULE Spec2Model ----
(***************************************************************************)
(* A model of the myCat desktop pet.                                       *)
(*                                                                         *)
(*   SpecGif    the Qt window of src/mycat/main.py: the static / GIF       *)
(*              playback cycle, driven by the 16 ms tick timer, the        *)
(*              per-frame animation timer, the 50 ms single-shot           *)
(*              completion callback and image switches from the menu.      *)
(*   LiveGif    SpecGif with the fairness of Qt's timers.                  *)
(*   LiveBlink  the GTK window of src/main.py: the open / closed eyes      *)
(*              blink driven by the 16 ms GLib timeout.                    *)
(*   SpecPos    dragging, saving and restoring the window position, in the *)
(*              Qt (INI) and the GTK (JSON) program.                       *)
(*   SpecChat   the chat dialog of src/mycat/llm_ui.py with its worker     *)
(*              thread; LiveChat adds the fairness of the thread pool and  *)
(*              of the UI event loop.                                      *)
(*                                                                         *)
(* Time is counted in milliseconds.  A timer is a count-down; time cannot  *)
(* pass while a timer is due (the event loop runs the due handlers         *)
(* first), and passes at most Quantum ms per step.                         *)
(***************************************************************************)
EXTENDS Integers, Sequences, FiniteSets, TLC

VARIABLES
    \* ---- PixelCatWindow (Qt), src/mycat/main.py
    state,            \* self.state: "png" | "gif"
    next_change,      \* self.next_change - time.time(), floored at 0
    wait_time,        \* self.wait_time (ms)
    current_frame,    \* self.current_frame
    frame_delays,     \* self.frame_delays (ms)
    gif_movie,        \* self.gif_movie: the GIF the QMovie was opened on
    current_pixmap,   \* self.current_pixmap: what paintEvent draws
    png_pixmap,       \* self.png_pixmap
    file_name,        \* self.file_name
    animation_timer,  \* self.animation_timer: [active, left, interval]
    complete_shots,   \* pending QTimer.singleShot(50, _complete_switch_to_png)
    tick_timer,       \* ms until self.timer (16 ms) fires next
    dragging,         \* self.dragging
    win_pos,          \* self.pos()
    win_size,         \* self.size()
    \* ---- the files the window reads and writes
    anim_gif_file,    \* ANIMATION_GIF_PATH: the GIF last written there
    static_png_file,  \* STATIC_PNG_PATH: the pixmap last saved there
    cfg_ini,          \* ~/.config/mycat/config.ini
    pillow,           \* whether PIL can be imported
    \* ---- history of the run (not program state)
    shown,            \* frames displayed since the state last left "png"
    since_png,        \* ms since the state last became "png" (capped)
    switches,         \* number of menu image switches so far
    \* ---- PixelCatWindow (GTK), src/main.py
    gtk_state,        \* self.state: "open" | "closed"
    gtk_current,      \* self.current: "open_pb" | "closed_pb"
    gtk_next_change,  \* self.next_change - time.time(), floored at 0
    open_sec,         \* self.open_sec (ms)
    closed_sec,       \* self.closed_sec (ms)
    phase_args,       \* args.open_sec and args.closed_sec as given (ms)
    gtk_tick,         \* ms until the GLib timeout is due
    gtk_pos,          \* self.get_position()
    gtk_dragging,     \* self.dragging
    cfg_json,         \* ~/.config/mycat/config.json
    since_switch,     \* history: ms since the last blink switch (capped)
    blink_count,      \* history: number of blink switches (capped)
    \* ---- the run
    variant,          \* which program runs: "qt" | "gtk"
    pos_arg,          \* args.pos of the current run
    saved_pos,        \* history: the window position at the last save
    last_op,          \* history: the handler that ran last
    \* ---- ChatDialog and _LLMWorker, src/mycat/llm_ui.py
    chat_dialog,      \* "none" | "visible" | "hidden" | "destroyed"
    messages,         \* self._messages
    waiting_for_response, \* self._waiting_for_response
    input_enabled,    \* input field and buttons enabled
    input_text,       \* self.input_field.text()
    typing_indicator, \* self._typing_indicator is set
    pending_worker,   \* self._pending_worker
    pending_request_text, \* self._pending_request_text
    workers,          \* every _LLMWorker created, in order
    ui_events,        \* signal emissions queued for the UI thread
    history_file,     \* history.txt: a sequence of lines
    history_messages, \* settings.history_messages
    loaded_count,     \* history: messages loaded from the file, not sent
    delivered,        \* history: workers whose result or error was handled
    \* ---- the process: main of src/main.py and of src/mycat/main.py
    exit_status,      \* None while no sys.exit ran, else Some(status)
    window_shown,     \* a window was built and shown by this run
    asset,            \* the sprite / ZIP archive this run was started with
    llm_env,          \* the chat flags and settings this run was started with
    llm_context,      \* llm.initialize: "none" or the backend's name
    chat_attached,    \* window._llm_controller is set
    args_image,       \* args.image of the Qt run: None or the archive named
    \* ---- OllamaBackend.reply, src/mycat/llm_ollama.py
    reply_args,       \* the backend's url and model, and the two texts
    http_request,     \* the requests handed to urlopen, in order
    http_response,    \* what the server did with the request
    reply_outcome,    \* None, or how reply ended: returned text / raised
    \* ---- _LLMController, src/mycat/llm_ui.py
    press_pos,        \* self._press_pos: None or the point of the press
    press_time,       \* self._press_time: None or time.monotonic() then, ms
    mono,             \* time.monotonic(), in ms
    mouse_event,      \* the mouse event the event filter saw last
    dialogs,          \* the ChatDialog objects that exist
    \* ---- the history file functions of src/mycat/llm_prompt.py
    hist_entries,     \* the (role, text, timestamp) appended so far
    hist_file,        \* the lines of the history file
    hist_parsed,      \* what parse_history_file returned last
    \* ---- load_env_file of src/mycat/llm_prompt.py
    environ,          \* os.environ: key -> None or the value
    env_loaded,       \* _ENV_LOADED
    env_files,        \* candidate -> None (no such file) or its lines
    environ_start,    \* os.environ when the process started
    load_calls,       \* calls of load_env_file so far
    \* ---- slice_sprite_to_pixbufs of src/main.py
    sprite_in,        \* the sprite sheet and the target width
    slice_out,        \* None, or how the call ended
    \* ---- scale_pixmap_if_needed of src/mycat/main.py
    pixmap_in,        \* the pixmap and the limits
    scale_out         \* None, or the pixmap returned

gifVars == << state, next_change, wait_time, current_frame, frame_delays,
              gif_movie, current_pixmap, png_pixmap, file_name,
              animation_timer, complete_shots, tick_timer, dragging, win_pos,
              win_size, anim_gif_file, static_png_file, cfg_ini, pillow,
              shown, since_png, switches >>

gtkVars == << gtk_state, gtk_current, gtk_next_change, open_sec, closed_sec,
              phase_args,
              gtk_tick, gtk_pos, gtk_dragging, cfg_json, since_switch,
              blink_count >>

runVars == << variant, pos_arg, saved_pos, last_op >>

chatVars == << chat_dialog, messages, waiting_for_response, input_enabled,
               input_text, typing_indicator, pending_worker,
               pending_request_text, workers, ui_events, history_file,
               history_messages, loaded_count, delivered >>

startVars == << exit_status, window_shown, asset, llm_env, llm_context,
                chat_attached, args_image >>

ollamaVars == << reply_args, http_request, http_response, reply_outcome >>

clickVars == << press_pos, press_time, mono, mouse_event, dialogs >>

roundVars == << hist_entries, hist_file, hist_parsed >>

envVars == << environ, env_loaded, env_files, environ_start, load_calls >>

sliceVars == << sprite_in, slice_out >>

scaleVars == << pixmap_in, scale_out >>

restVars == << roundVars, envVars, sliceVars, scaleVars >>

extVars == << clickVars, restVars >>

auxVars == << startVars, ollamaVars, extVars >>

vars == << gifVars, gtkVars, runVars, chatVars, auxVars >>

(***************************************************************************)
(* Bounds of the model.                                                    *)
(***************************************************************************)
MaxFrames == 2
MaxSwitches == 1
Quantum == 8
MaxBlinks == 2
MaxSends == 2

\* the monotonic clock stops at MaxMono ms and advances by ClickQuantum ms
MaxMono == 500

\* the messages appended to one history file
MaxEntries == 2

\* the calls of load_env_file in one process
MaxLoads == 2

ClickQuantum == 125

(***************************************************************************)
(* Program constants.                                                      *)
(***************************************************************************)
TICK_MS == 16
COMPLETE_DELAY_MS == 50
DEFAULT_DELAY_MS == 100
IMAGE_WIDTH_MAX == 300
IMAGE_HEIGHT_MAX == 500
DEFAULT_POSITION_OFFSET_X == 10
DEFAULT_POSITION_OFFSET_Y == 10
MIN_PHASE_MS == 50
GTK_TICK_MS == 16
GTK_DEFAULT_POS == 100

(***************************************************************************)
(* Generic helpers.                                                        *)
(***************************************************************************)
Min(a, b) == IF a <= b THEN a ELSE b

Max(a, b) == IF a >= b THEN a ELSE b

RECURSIVE SeqSum(_)
SeqSum(s) == IF s = << >> THEN 0 ELSE Head(s) + SeqSum(Tail(s))

Replicate(v, n) == [i \in 1..n |-> v]

SetMax(S) == CHOOSE m \in S : \A x \in S : x <= m

\* An optional value: << >> is None, << v >> is v.
None == << >>

Some(v) == << v >>


(***************************************************************************)
(* Integers as text: Python's str(int) and int(str), which the INI and the *)
(* JSON config go through.  A text is a sequence of one-character strings. *)
(***************************************************************************)
DigitChars == << "0", "1", "2", "3", "4", "5", "6", "7", "8", "9" >>

RECURSIVE NatToStr(_)
NatToStr(n) ==
    IF n < 10 THEN << DigitChars[n + 1] >>
    ELSE NatToStr(n \div 10) \o << DigitChars[(n % 10) + 1] >>

\* a faulty str(int) that loses the sign
IntToStr_NoSign(n) == NatToStr(IF n < 0 THEN 0 - n ELSE n)

IntToStr(n) == IF n < 0 THEN << "-" >> \o NatToStr(0 - n) ELSE NatToStr(n)

IsDigit(c) == \E d \in 0..9 : DigitChars[d + 1] = c

DigitVal(c) == CHOOSE d \in 0..9 : DigitChars[d + 1] = c

RECURSIVE DigitsVal(_)
DigitsVal(s) ==
    IF s = << >> THEN 0
    ELSE DigitsVal(SubSeq(s, 1, Len(s) - 1)) * 10 + DigitVal(s[Len(s)])

\* int(text): [ok |-> FALSE] stands for ValueError.
ParseInt(s) ==
    LET signed == s # << >> /\ Head(s) \in {"-", "+"}
        body   == IF signed THEN Tail(s) ELSE s
        ok     == body # << >> /\ \A i \in 1..Len(body) : IsDigit(body[i])
    IN  [ok  |-> ok,
         val |-> IF ~ok THEN 0
                 ELSE IF signed /\ Head(s) = "-" THEN 0 - DigitsVal(body)
                 ELSE DigitsVal(body)]

(***************************************************************************)
(* ~/.config/mycat/config.ini as configparser sees it.                     *)
(*   status   "missing" | "corrupt" (configparser.read raises) | "ok"      *)
(*   window   the [window] section exists;  x, y: its values, if any       *)
(*   settings the [settings] section exists; default_image: its value      *)
(***************************************************************************)
MissingIni ==
    [status |-> "missing", window |-> FALSE, x |-> None, y |-> None,
     settings |-> FALSE, default_image |-> None]

CorruptIni == [MissingIni EXCEPT !.status = "corrupt"]

load_config(ini, screen_width, screen_height, window_width, window_height) ==
    LET default_x == screen_width - window_width - DEFAULT_POSITION_OFFSET_X
        default_y == screen_height - window_height - DEFAULT_POSITION_OFFSET_Y
        px == IF ini.x = None THEN [ok |-> TRUE, val |-> default_x]
              ELSE ParseInt(ini.x[1])
        py == IF ini.y = None THEN [ok |-> TRUE, val |-> default_y]
              ELSE ParseInt(ini.y[1])
    IN  IF ini.status # "ok" \/ ~ini.window
        THEN [x |-> default_x, y |-> default_y]
        ELSE IF ~px.ok THEN [x |-> default_x, y |-> default_y]
        ELSE IF ~py.ok THEN [x |-> px.val, y |-> default_y]
        ELSE [x |-> px.val, y |-> py.val]

save_config(ini, config) ==
    IF ini.status = "corrupt" THEN ini
    ELSE [ini EXCEPT !.status = "ok", !.window = TRUE,
                     !.x = Some(IntToStr(config.x)),
                     !.y = Some(IntToStr(config.y))]

load_image_from_ini(ini) ==
    IF ini.status # "ok" THEN None
    ELSE IF ini.settings /\ ini.default_image # None THEN ini.default_image
    ELSE None

\* a faulty save that writes a fresh file holding only [settings]
save_image_to_ini_Fresh(ini, image_name) ==
    IF ini.status = "corrupt" THEN ini
    ELSE [MissingIni EXCEPT !.status = "ok", !.settings = TRUE,
                            !.default_image = Some(image_name)]

save_image_to_ini(ini, image_name) ==
    IF ini.status = "corrupt" THEN ini
    ELSE [ini EXCEPT !.status = "ok", !.settings = TRUE,
                     !.default_image = Some(image_name)]

(***************************************************************************)
(* GIF files, pixmaps and the frame-delay table.                           *)
(*   A GIF is [ok, delays, w, h]: ok = Qt can decode it; delays[k] is the  *)
(*   Graphic Control Extension delay of frame k in 1/100 s, None when the  *)
(*   frame has no such extension.                                          *)
(***************************************************************************)
BadGif == [ok |-> FALSE, delays |-> << >>, w |-> 0, h |-> 0]

\* The GIF inside images/<name>.zip, with n frames.  cat: frame k has a delay
\* of k/100 s; dog: odd frames have a zero delay, even frames no extension.
GifOf(name, n, size) ==
    [ok |-> TRUE,
     delays |-> [k \in 1..n |-> IF name = "cat" THEN Some(k)
                                ELSE IF k % 2 = 1 THEN Some(0) ELSE None],
     w |-> size[1], h |-> size[2]]

OkGifs(name, sizes, counts) == { GifOf(name, n, s) : n \in counts, s \in sizes }

\* What images/<name>.zip can hold when it is opened.
Zips(name, sizes, counts) ==
    { [kind |-> k, gif |-> BadGif] : k \in {"missing", "nogif", "gif"} }
    \cup { [kind |-> "gif", gif |-> g] : g \in OkGifs(name, sizes, counts) }
    \cup { [kind |-> "pngfail", gif |-> g] : g \in OkGifs(name, sizes, { 1 }) }

\* QMovie.frameCount()
frameCount(gif) == IF gif.ok THEN Len(gif.delays) ELSE 0

NullPix ==
    [null |-> TRUE, src |-> "none", img |-> BadGif, frame |-> 0,
     w |-> 0, h |-> 0]

\* the (new_width, new_height) scale_pixmap_if_needed asks Qt for, in exact
\* arithmetic: int(w * scale_factor), int(h * scale_factor)
RequestedSize(w, h, max_width, max_height) ==
    IF w <= max_width /\ h <= max_height THEN [w |-> w, h |-> h]
    ELSE IF w > max_width /\ (h <= max_height \/ max_width * h <= max_height * w)
    THEN [w |-> max_width, h |-> (h * max_width) \div w]
    ELSE [w |-> (w * max_height) \div h, h |-> max_height]

\* QPixmap.scaled(new_width, new_height, KeepAspectRatio): the size of the
\* result; an empty size gives the null pixmap, of size 0 x 0
QPixmapScaled(w, h, new_width, new_height) ==
    LET rw == (new_height * w) \div h
    IN  IF new_width <= 0 \/ new_height <= 0 THEN [w |-> 0, h |-> 0]
        ELSE IF rw <= new_width THEN [w |-> Max(rw, 1), h |-> new_height]
        ELSE [w |-> new_width, h |-> Max((new_width * h) \div w, 1)]

\* scale_pixmap_if_needed: the size of the pixmap returned
scale_pixmap_if_needed(w, h, max_width, max_height) ==
    LET new == RequestedSize(w, h, max_width, max_height)
    IN  IF w <= max_width /\ h <= max_height THEN [w |-> w, h |-> h]
        ELSE QPixmapScaled(w, h, new.w, new.h)

\* the first frame, scaled, as saved to and loaded from static.png
StaticPix(gif) ==
    LET s == scale_pixmap_if_needed(gif.w, gif.h, IMAGE_WIDTH_MAX, IMAGE_HEIGHT_MAX)
    IN  [null |-> FALSE, src |-> "png", img |-> gif, frame |-> 0,
         w |-> s.w, h |-> s.h]

\* QMovie.jumpToFrame(k) followed by currentPixmap()
MoviePix(movie, k) ==
    IF k < frameCount(movie.gif)
    THEN [null |-> FALSE, src |-> "gif", img |-> movie.gif, frame |-> k,
          w |-> movie.w, h |-> movie.h]
    ELSE NullPix

parse_gif_frame_delays(gif, pil) ==
    IF ~pil \/ ~gif.ok THEN << >>
    ELSE [k \in 1..Len(gif.delays) |->
            IF gif.delays[k] = None THEN DEFAULT_DELAY_MS
            ELSE 10 * gif.delays[k][1]]

\* a faulty get_gif_duration without the estimate from the frame count
get_gif_duration_NoEstimate(movie_gif, gif_file, pil) ==
    LET delays == parse_gif_frame_delays(gif_file, pil)
    IN  IF delays # << >> THEN [duration |-> SeqSum(delays), delays |-> delays]
        ELSE [duration |-> 0, delays |-> << >>]

\* [duration (ms), delays]; the delays are read from the file ANIMATION_GIF_PATH
get_gif_duration(movie_gif, gif_file, pil) ==
    LET delays == parse_gif_frame_delays(gif_file, pil)
        frame_count == frameCount(movie_gif)
    IN  IF delays # << >> THEN [duration |-> SeqSum(delays), delays |-> delays]
        ELSE IF frame_count > 0
        THEN [duration |-> frame_count * DEFAULT_DELAY_MS,
              delays |-> Replicate(DEFAULT_DELAY_MS, frame_count)]
        ELSE [duration |-> 0, delays |-> << >>]

\* self.frame_delays as __init__ and _load_image set it
WindowFrameDelays(movie_gif, gif_file, pil) ==
    LET r == get_gif_duration(movie_gif, gif_file, pil)
        frame_count == frameCount(movie_gif)
    IN  IF r.delays # << >> THEN r.delays
        ELSE IF frame_count > 0 /\ r.duration > 0
        THEN Replicate(r.duration \div frame_count, frame_count)
        ELSE << DEFAULT_DELAY_MS >>


(***************************************************************************)
(* The Qt window: construction (main and PixelCatWindow.__init__).         *)
(***************************************************************************)
Names == { "cat", "dog" }

\* the image main loads when none is named
DefaultImage == "cat"

WaitSet == { 0, 20 }

Screen == [w |-> 800, h |-> 600]

StoppedTimer == [active |-> FALSE, left |-> 0, interval |-> 0]

\* a faulty QTimer.start that leaves the timer stopped
StartTimer_Never(msec) == StoppedTimer

\* QTimer.start(msec)
StartTimer(msec) == [active |-> TRUE, left |-> msec, interval |-> msec]

Movie(gif, pixmap) == [gif |-> gif, w |-> pixmap.w, h |-> pixmap.h]

\* PixelCatWindow._load_position
LoadPosition(ini, size) == load_config(ini, Screen.w, Screen.h, size.w, size.h)

\* a faulty start that ignores --pos
StartPosition_Remembered(arg, remembered) == remembered

\* main: --pos overrides the position __init__ loaded
StartPosition(arg, remembered) == IF arg # None THEN arg[1] ELSE remembered

\* The window and its files once main has built the window from the decodable
\* GIF `gif` of archive `name`: load_packaged_images, __init__, then --pos.
NewWindow(ini, name, gif, wait, pos, pil) ==
    LET pixmap == StaticPix(gif)
        size   == [w |-> pixmap.w, h |-> pixmap.h]
    IN  [state           |-> "png",
         next_change     |-> Max(0, wait),
         wait_time       |-> wait,
         current_frame   |-> 0,
         frame_delays    |-> WindowFrameDelays(gif, gif, pil),
         gif_movie       |-> Movie(gif, pixmap),
         current_pixmap  |-> pixmap,
         png_pixmap      |-> pixmap,
         file_name       |-> name,
         animation_timer |-> StoppedTimer,
         complete_shots  |-> << >>,
         tick_timer      |-> TICK_MS,
         dragging        |-> FALSE,
         win_size        |-> size,
         win_pos         |-> StartPosition(pos, LoadPosition(ini, size)),
         anim_gif_file   |-> gif,
         static_png_file |-> pixmap,
         cfg_ini         |-> save_image_to_ini(ini, name)]

InitWindow(win, pil) ==
    /\ state = win.state
    /\ next_change = win.next_change
    /\ wait_time = win.wait_time
    /\ current_frame = win.current_frame
    /\ frame_delays = win.frame_delays
    /\ gif_movie = win.gif_movie
    /\ current_pixmap = win.current_pixmap
    /\ png_pixmap = win.png_pixmap
    /\ file_name = win.file_name
    /\ animation_timer = win.animation_timer
    /\ complete_shots = win.complete_shots
    /\ tick_timer = win.tick_timer
    /\ dragging = win.dragging
    /\ win_size = win.win_size
    /\ win_pos = win.win_pos
    /\ anim_gif_file = win.anim_gif_file
    /\ static_png_file = win.static_png_file
    /\ cfg_ini = win.cfg_ini
    /\ pillow = pil
    /\ shown = << >>
    /\ since_png = 0
    /\ switches = 0

(***************************************************************************)
(* The Qt window: the handlers.                                            *)
(***************************************************************************)
SincePngCap == SetMax(WaitSet)

\* a faulty tick that does not look at the state
OnTick_AnyState ==
    /\ tick_timer = 0
    /\ UNCHANGED << gtkVars, runVars, chatVars, auxVars >>
    /\ tick_timer' = TICK_MS
    /\ IF next_change = 0
       THEN LET static_pixmap == static_png_file
                shownPix == IF static_pixmap.null THEN current_pixmap
                            ELSE static_pixmap
            IN  /\ state' = "gif"
                /\ current_pixmap' = shownPix
                /\ gif_movie' = Movie(anim_gif_file, shownPix)
                /\ current_frame' = 0
                /\ animation_timer' =
                       IF frame_delays # << >> THEN StartTimer(frame_delays[1])
                       ELSE StartTimer(DEFAULT_DELAY_MS)
                /\ shown' = << >>
       ELSE UNCHANGED << state, current_pixmap, gif_movie, current_frame,
                         animation_timer, shown >>
    /\ UNCHANGED << next_change, wait_time, frame_delays, png_pixmap, file_name,
                    complete_shots, dragging, win_pos, win_size, anim_gif_file,
                    static_png_file, cfg_ini, pillow, since_png, switches >>

\* self.timer.timeout -> PixelCatWindow._on_tick
OnTick ==
    /\ tick_timer = 0
    /\ UNCHANGED << gtkVars, runVars, chatVars, auxVars >>
    /\ tick_timer' = TICK_MS
    /\ IF state = "png" /\ next_change = 0
       THEN LET static_pixmap == static_png_file
                shownPix == IF static_pixmap.null THEN current_pixmap
                            ELSE static_pixmap
            IN  /\ state' = "gif"
                /\ current_pixmap' = shownPix
                /\ gif_movie' = Movie(anim_gif_file, shownPix)
                /\ current_frame' = 0
                /\ animation_timer' =
                       IF frame_delays # << >> THEN StartTimer(frame_delays[1])
                       ELSE StartTimer(DEFAULT_DELAY_MS)
                /\ shown' = << >>
       ELSE UNCHANGED << state, current_pixmap, gif_movie, current_frame,
                         animation_timer, shown >>
    /\ UNCHANGED << next_change, wait_time, frame_delays, png_pixmap, file_name,
                    complete_shots, dragging, win_pos, win_size, anim_gif_file,
                    static_png_file, cfg_ini, pillow, since_png, switches >>

\* self.animation_timer.timeout -> PixelCatWindow._on_animation_frame
OnAnimationFrame ==
    /\ animation_timer.active
    /\ UNCHANGED << gtkVars, runVars, chatVars, auxVars >>
    /\ animation_timer.left = 0
    /\ LET frame_count == frameCount(gif_movie.gif)
           pixmap      == MoviePix(gif_movie, current_frame)
           next        == current_frame + 1
       IN  IF current_frame >= frame_count
           THEN /\ animation_timer' = StoppedTimer
                /\ complete_shots' = Append(complete_shots, COMPLETE_DELAY_MS)
                /\ UNCHANGED << current_pixmap, current_frame, shown >>
           ELSE /\ current_pixmap' = IF pixmap.null THEN current_pixmap ELSE pixmap
                /\ shown' = IF pixmap.null \/ state # "gif" THEN shown
                            ELSE Append(shown, current_frame)
                /\ current_frame' = next
                /\ animation_timer' =
                       IF /\ next < frame_count
                          /\ frame_delays # << >>
                          /\ next < Len(frame_delays)
                       THEN StartTimer(frame_delays[next + 1])
                       ELSE [animation_timer EXCEPT !.left = animation_timer.interval]
                /\ UNCHANGED complete_shots
    /\ UNCHANGED << state, next_change, wait_time, frame_delays, gif_movie,
                    png_pixmap, file_name, tick_timer, dragging, win_pos,
                    win_size, anim_gif_file, static_png_file, cfg_ini, pillow,
                    since_png, switches >>

\* QTimer.singleShot(50, ...) -> PixelCatWindow._complete_switch_to_png
CompleteSwitchToPng ==
    /\ complete_shots # << >>
    /\ UNCHANGED << gtkVars, runVars, chatVars, auxVars >>
    /\ Head(complete_shots) = 0
    /\ complete_shots' = Tail(complete_shots)
    /\ IF state = "gif"
       THEN /\ state' = "png"
            /\ next_change' = Max(0, wait_time)
            /\ since_png' = 0
            /\ current_pixmap' = IF static_png_file.null THEN current_pixmap
                                 ELSE static_png_file
            /\ png_pixmap' = IF static_png_file.null THEN png_pixmap
                             ELSE static_png_file
       ELSE UNCHANGED << state, next_change, since_png, current_pixmap, png_pixmap >>
    /\ UNCHANGED << wait_time, current_frame, frame_delays, gif_movie, file_name,
                    animation_timer, tick_timer, dragging, win_pos, win_size,
                    anim_gif_file, static_png_file, cfg_ini, pillow, shown,
                    switches >>

\* a faulty switch that keeps the top-left corner where it was
SwitchedWindow_TopLeft(image_name, gif) ==
    LET new_pixmap == StaticPix(gif)
    IN  /\ anim_gif_file' = gif
        /\ static_png_file' = new_pixmap
        /\ png_pixmap' = new_pixmap
        /\ gif_movie' = Movie(gif, new_pixmap)
        /\ file_name' = image_name
        /\ frame_delays' = WindowFrameDelays(gif, gif, pillow)
        /\ current_pixmap' = new_pixmap
        /\ state' = "png"
        /\ next_change' = Max(0, wait_time)
        /\ since_png' = 0
        /\ win_size' = [w |-> new_pixmap.w, h |-> new_pixmap.h]
        /\ win_pos' = win_pos
        /\ cfg_ini' = save_config(save_image_to_ini(cfg_ini, image_name), win_pos)

\* The window as _load_image(image_name) leaves it when every step succeeds.
SwitchedWindow(image_name, gif) ==
    LET new_pixmap == StaticPix(gif)
        new_pos    == [x |-> win_pos.x + win_size.w - new_pixmap.w,
                       y |-> win_pos.y + win_size.h - new_pixmap.h]
    IN  /\ anim_gif_file' = gif
        /\ static_png_file' = new_pixmap
        /\ png_pixmap' = new_pixmap
        /\ gif_movie' = Movie(gif, new_pixmap)
        /\ file_name' = image_name
        /\ frame_delays' = WindowFrameDelays(gif, gif, pillow)
        /\ current_pixmap' = new_pixmap
        /\ state' = "png"
        /\ next_change' = Max(0, wait_time)
        /\ since_png' = 0
        /\ win_size' = [w |-> new_pixmap.w, h |-> new_pixmap.h]
        /\ win_pos' = new_pos
        /\ cfg_ini' = save_config(save_image_to_ini(cfg_ini, image_name), new_pos)

\* context menu -> PixelCatWindow._load_image(image_name); zip is what
\* images/<image_name>.zip holds at that moment
LoadImage(image_name, zip) ==
    /\ IF zip.kind \in {"missing", "nogif"}
       THEN UNCHANGED << anim_gif_file, static_png_file, png_pixmap, gif_movie,
                         file_name, frame_delays, current_pixmap, state,
                         next_change, since_png, win_size, win_pos, cfg_ini >>
       ELSE IF ~zip.gif.ok
       THEN /\ anim_gif_file' = zip.gif
            /\ UNCHANGED << static_png_file, png_pixmap, gif_movie, file_name,
                            frame_delays, current_pixmap, state, next_change,
                            since_png, win_size, win_pos, cfg_ini >>
       ELSE IF zip.kind = "pngfail"
       THEN /\ anim_gif_file' = zip.gif
            /\ static_png_file' = NullPix
            /\ UNCHANGED << png_pixmap, gif_movie, file_name, frame_delays,
                            current_pixmap, state, next_change, since_png,
                            win_size, win_pos, cfg_ini >>
       ELSE SwitchedWindow(image_name, zip.gif)
    /\ UNCHANGED << wait_time, current_frame, animation_timer, complete_shots,
                    tick_timer, dragging, pillow, shown >>

\* Time passes: d ms, up to the next timer that falls due.
Advance ==
    /\ tick_timer > 0
    /\ UNCHANGED << gtkVars, runVars, chatVars, auxVars >>
    /\ ~(animation_timer.active /\ animation_timer.left = 0)
    /\ IF complete_shots = << >> THEN TRUE ELSE Head(complete_shots) > 0
    /\ LET untilAnim == IF animation_timer.active THEN animation_timer.left
                        ELSE Quantum
           untilShot == IF complete_shots = << >> THEN Quantum
                        ELSE Head(complete_shots)
           d == Min(Min(Quantum, tick_timer), Min(untilAnim, untilShot))
       IN  /\ tick_timer' = tick_timer - d
           /\ animation_timer' =
                  IF animation_timer.active
                  THEN [animation_timer EXCEPT !.left = animation_timer.left - d]
                  ELSE animation_timer
           /\ complete_shots' = [i \in 1..Len(complete_shots) |-> complete_shots[i] - d]
           /\ next_change' = Max(0, next_change - d)
           /\ since_png' = Min(SincePngCap, since_png + d)
    /\ UNCHANGED << state, wait_time, current_frame, frame_delays, gif_movie,
                    current_pixmap, png_pixmap, file_name, dragging, win_pos,
                    win_size, anim_gif_file, static_png_file, cfg_ini, pillow,
                    shown, switches >>

(***************************************************************************)
(* The GTK window (src/main.py): construction, blink and position.         *)
(***************************************************************************)
\* --open and --closed, in ms
PhaseArgs == { 0 - 20, 0, 60 }

MissingJson == [status |-> "missing", x |-> None, y |-> None]

GtkDefaultPos == [x |-> GTK_DEFAULT_POS, y |-> GTK_DEFAULT_POS]

\* PixelCatWindow.load_pos: the position the window is moved to
load_pos(json) ==
    LET px == IF json.x = None THEN [ok |-> TRUE, val |-> GTK_DEFAULT_POS]
              ELSE ParseInt(json.x[1])
        py == IF json.y = None THEN [ok |-> TRUE, val |-> GTK_DEFAULT_POS]
              ELSE ParseInt(json.y[1])
    IN  IF json.status # "ok" THEN GtkDefaultPos
        ELSE IF px.ok /\ py.ok THEN [x |-> px.val, y |-> py.val]
        ELSE GtkDefaultPos

\* PixelCatWindow.save_pos: the file after json.dumps({"x": x, "y": y})
save_pos(json, pos) ==
    [status |-> "ok", x |-> Some(IntToStr(pos.x)), y |-> Some(IntToStr(pos.y))]

\* a faulty blink that never opens the eyes again
Toggle_Stuck(st) == "closed"

\* the state the blink moves to
Toggle(st) == IF st = "open" THEN "closed" ELSE "open"

\* the pixbuf on_tick selects for a state
Pixbuf(st) == IF st = "open" THEN "open_pb" ELSE "closed_pb"

\* the duration of a state
Phase(st) == IF st = "open" THEN open_sec ELSE closed_sec

SinceSwitchCap == Max(MIN_PHASE_MS, SetMax(PhaseArgs)) + GTK_TICK_MS

\* a faulty constructor that takes the durations as they are given
NewGtkWindow_Unclamped(json, open_arg, closed_arg, pos) ==
    [state       |-> "open",
     current     |-> Pixbuf("open"),
     open_sec    |-> open_arg,
     closed_sec  |-> closed_arg,
     args        |-> [open |-> open_arg, closed |-> closed_arg],
     next_change |-> Max(0, open_arg),
     pos         |-> IF pos # None THEN pos[1] ELSE load_pos(json),
     dragging    |-> FALSE,
     tick        |-> GTK_TICK_MS]

\* PixelCatWindow.__init__
NewGtkWindow(json, open_arg, closed_arg, pos) ==
    [state       |-> "open",
     current     |-> Pixbuf("open"),
     open_sec    |-> Max(MIN_PHASE_MS, open_arg),
     closed_sec  |-> Max(MIN_PHASE_MS, closed_arg),
     args        |-> [open |-> open_arg, closed |-> closed_arg],
     next_change |-> Max(MIN_PHASE_MS, open_arg),
     pos         |-> IF pos # None THEN pos[1] ELSE load_pos(json),
     dragging    |-> FALSE,
     tick        |-> GTK_TICK_MS]

InitGtkWindow(win, json) ==
    /\ gtk_state = win.state
    /\ gtk_current = win.current
    /\ gtk_next_change = win.next_change
    /\ open_sec = win.open_sec
    /\ closed_sec = win.closed_sec
    /\ phase_args = win.args
    /\ gtk_tick = win.tick
    /\ gtk_pos = win.pos
    /\ gtk_dragging = win.dragging
    /\ cfg_json = json
    /\ since_switch = 0
    /\ blink_count = 0

\* GLib.timeout_add(16, self.on_tick) -> PixelCatWindow.on_tick
on_tick ==
    /\ gtk_tick = 0
    /\ gtk_tick' = GTK_TICK_MS
    /\ IF gtk_next_change = 0
       THEN /\ gtk_state' = Toggle(gtk_state)
            /\ gtk_current' = Pixbuf(Toggle(gtk_state))
            /\ gtk_next_change' = IF gtk_state = "open" THEN closed_sec
                                  ELSE open_sec
            /\ since_switch' = 0
            /\ blink_count' = Min(MaxBlinks, blink_count + 1)
       ELSE UNCHANGED << gtk_state, gtk_current, gtk_next_change, since_switch,
                         blink_count >>
    /\ UNCHANGED << open_sec, closed_sec,
                    phase_args, gtk_pos, gtk_dragging, cfg_json >>
    /\ UNCHANGED << gifVars, runVars, chatVars, auxVars >>

\* Time passes in the GTK program.  GLib runs a timeout no earlier than it is
\* due, so time may also pass while the tick is due.
GtkAdvance ==
    /\ LET d == IF gtk_tick > 0 THEN Min(Quantum, gtk_tick) ELSE Quantum
       IN  /\ gtk_tick' = Max(0, gtk_tick - d)
           /\ gtk_next_change' = Max(0, gtk_next_change - d)
           /\ since_switch' = Min(SinceSwitchCap, since_switch + d)
    /\ UNCHANGED << gtk_state, gtk_current, open_sec, closed_sec,
                    phase_args, gtk_pos,
                    gtk_dragging, cfg_json, blink_count >>
    /\ UNCHANGED << gifVars, runVars, chatVars, auxVars >>

\* PixelCatWindow.on_button_press, button 1
on_button_press ==
    /\ variant = "gtk"
    /\ gtk_dragging' = TRUE
    /\ last_op' = "press"
    /\ UNCHANGED << gtk_state, gtk_current, gtk_next_change, open_sec,
                    closed_sec,
                    phase_args, gtk_tick, gtk_pos, cfg_json, since_switch,
                    blink_count >>
    /\ UNCHANGED << variant, pos_arg, saved_pos >>
    /\ UNCHANGED << gifVars, chatVars, auxVars >>

\* PixelCatWindow.on_motion: the pointer drags the window to p
on_motion(p) ==
    /\ variant = "gtk"
    /\ gtk_dragging
    /\ gtk_pos' = p
    /\ last_op' = "move"
    /\ UNCHANGED << gtk_state, gtk_current, gtk_next_change, open_sec,
                    closed_sec,
                    phase_args, gtk_tick, gtk_dragging, cfg_json, since_switch,
                    blink_count >>
    /\ UNCHANGED << variant, pos_arg, saved_pos >>
    /\ UNCHANGED << gifVars, chatVars, auxVars >>

\* PixelCatWindow.on_button_release, button 1
on_button_release ==
    /\ variant = "gtk"
    /\ gtk_dragging
    /\ gtk_dragging' = FALSE
    /\ cfg_json' = save_pos(cfg_json, gtk_pos)
    /\ saved_pos' = Some(gtk_pos)
    /\ last_op' = "release"
    /\ UNCHANGED << gtk_state, gtk_current, gtk_next_change, open_sec,
                    closed_sec,
                    phase_args, gtk_tick, gtk_pos, since_switch, blink_count >>
    /\ UNCHANGED << variant, pos_arg >>
    /\ UNCHANGED << gifVars, chatVars, auxVars >>

(***************************************************************************)
(* The chat dialog (src/mycat/llm_ui.py, src/mycat/llm_prompt.py).         *)
(*   A line is a sequence of tokens, a text a non-empty sequence of lines  *)
(*   (the text split at its newlines; the empty text is one empty line).   *)
(***************************************************************************)
\* what the input field can hold
InputTexts == { << >>, << " " >>, << "hi" >>, << " ", "hi", " " >> }

\* what backend.reply can return
Answers == { << << "meow" >> >>, << << "purr" >>, << "mrr" >> >>, << << >> >> }

\* str(exc) of what backend.reply can raise
ErrorMessages == { << << "timeout" >> >> }

HistoryLimits == { 0, 2 }

TIMESTAMP == "T"

RECURSIVE LStrip(_)
LStrip(line) ==
    IF line # << >> /\ Head(line) = " " THEN LStrip(Tail(line)) ELSE line

RECURSIVE RStrip(_)
RStrip(line) ==
    IF line # << >> /\ line[Len(line)] = " "
    THEN RStrip(SubSeq(line, 1, Len(line) - 1))
    ELSE line

\* str.strip()
Strip(line) == RStrip(LStrip(line))

\* f"[{timestamp}] {label}:"
HeaderLine(timestamp, label) == << "[", timestamp, "]", " ", label, ":" >>

\* HISTORY_HEADER_RE.match(line.strip())
IsHeader(line) ==
    LET l == Strip(line)
    IN  /\ Len(l) = 6
        /\ l[1] = "["
        /\ l[3] = "]"
        /\ l[4] = " "
        /\ l[5] \in { "REQUEST", "RESPONSE" }
        /\ l[6] = ":"

\* "\n".join(buffer).rstrip("\n"), as a text
RECURSIVE JoinRStrip(_)
JoinRStrip(buffer) ==
    IF buffer = << >> THEN << << >> >>
    ELSE IF buffer[Len(buffer)] = << >> /\ Len(buffer) > 1
    THEN JoinRStrip(SubSeq(buffer, 1, Len(buffer) - 1))
    ELSE buffer

\* parse_history_file, from the state [entries, role, timestamp, buffer]
Flush(st) ==
    [entries   |-> IF st.role # None /\ st.timestamp # None
                   THEN Append(st.entries,
                               [role |-> st.role[1],
                                text |-> JoinRStrip(st.buffer),
                                timestamp |-> st.timestamp[1]])
                   ELSE st.entries,
     role      |-> None,
     timestamp |-> None,
     buffer    |-> << >>]

RECURSIVE ParseLines(_, _)
ParseLines(lines, st) ==
    IF lines = << >> THEN Flush(st).entries
    ELSE LET line == Head(lines)
         IN  IF IsHeader(line)
             THEN ParseLines(Tail(lines),
                             [Flush(st) EXCEPT
                                 !.role = Some(IF Strip(line)[5] = "REQUEST"
                                               THEN "user" ELSE "cat"),
                                 !.timestamp = Some(Strip(line)[2])])
             ELSE ParseLines(Tail(lines),
                             [st EXCEPT !.buffer = Append(st.buffer, line)])

parse_history_file(file) ==
    ParseLines(file, [entries |-> << >>, role |-> None, timestamp |-> None,
                      buffer |-> << >>])

append_history_entry(file, role, text, timestamp) ==
    file \o << HeaderLine(timestamp, IF role = "user" THEN "REQUEST"
                                     ELSE "RESPONSE") >> \o text

get_history_tail(file, limit) ==
    IF limit <= 0 THEN << >>
    ELSE LET first == Max(1, Len(file) - limit + 1)
         IN  [k \in 1..(Len(file) - first + 1) |-> RStrip(file[first + k - 1])]

\* render_prompt: the values substituted into the template (the date left out)
render_prompt(history_lines, history_limit) ==
    [history       |-> IF history_lines = << >>
                       THEN << << "No history available." >> >>
                       ELSE history_lines,
     history_count |-> history_limit]

Message(role, text) == [role |-> role, text |-> text, timestamp |-> TIMESTAMP]

\* f"Error: {message}"
ErrorText(message) == << << "Error: " >> \o Head(message) >> \o Tail(message)

\* a faulty test that lets every send through
SendRejected_Never(text, waiting) == FALSE

\* ChatDialog._send_message: the test that makes it return at once
SendRejected(text, waiting) == text = << >> \/ waiting

\* faulty deliveries: every signal twice; the finished signal lost; signals
\* kept for a dialog that no longer exists
Post_Twice(queue, dialog, event) ==
    IF dialog = "destroyed" THEN queue ELSE Append(Append(queue, event), event)

Post_DropFinished(queue, dialog, event) ==
    IF dialog = "destroyed" \/ event.sig = "finished" THEN queue
    ELSE Append(queue, event)

Post_ToDestroyed(queue, dialog, event) == Append(queue, event)

\* A signal emitted by a worker reaches the slot connected in
\* _request_ai_response as an event queued for the dialog's thread; Qt drops
\* the connection with the dialog object.
Post(queue, dialog, event) ==
    IF dialog = "destroyed" THEN queue ELSE Append(queue, event)

Event(sig, arg, i) == [sig |-> sig, arg |-> arg, worker |-> i]

InitChatIdle ==
    /\ chat_dialog = "none"
    /\ messages = << >>
    /\ waiting_for_response = FALSE
    /\ input_enabled = TRUE
    /\ input_text = << >>
    /\ typing_indicator = FALSE
    /\ pending_worker = None
    /\ pending_request_text = None
    /\ workers = << >>
    /\ ui_events = << >>
    /\ loaded_count = 0
    /\ delivered = { }

\* _LLMController._toggle_chat (and ChatDialog.__init__, _load_history)
ToggleChat ==
    IF chat_dialog = "none"
    THEN /\ chat_dialog' = "visible"
         /\ dialogs' = dialogs + 1
         /\ messages' = parse_history_file(history_file)
         /\ loaded_count' = Len(parse_history_file(history_file))
         /\ waiting_for_response' = FALSE
         /\ pending_worker' = None
         /\ pending_request_text' = None
         /\ typing_indicator' = FALSE
    ELSE /\ chat_dialog' = IF chat_dialog = "visible" THEN "hidden"
                           ELSE "visible"
         /\ UNCHANGED << dialogs, messages, loaded_count,
                         waiting_for_response, pending_worker,
                         pending_request_text, typing_indicator >>

\* a click on the cat, as the chat sees it: _toggle_chat runs
toggle_chat ==
    /\ chat_dialog # "destroyed"
    /\ ToggleChat
    /\ last_op' = "toggle_chat"
    /\ UNCHANGED << input_enabled, input_text, workers, ui_events,
                    history_file, history_messages, delivered >>
    /\ UNCHANGED << variant, pos_arg, saved_pos >>
    /\ UNCHANGED << press_pos, press_time, mono, mouse_event >>
    /\ UNCHANGED << gifVars, gtkVars, startVars, ollamaVars, restVars >>

\* ChatDialog.closeEvent while the cat window is visible
closeEvent ==
    /\ chat_dialog = "visible"
    /\ chat_dialog' = "hidden"
    /\ last_op' = "closeEvent"
    /\ UNCHANGED << messages, waiting_for_response, input_enabled, input_text,
                    typing_indicator, pending_worker, pending_request_text,
                    workers, ui_events, history_file, history_messages,
                    loaded_count, delivered >>
    /\ UNCHANGED << variant, pos_arg, saved_pos >>
    /\ UNCHANGED << gifVars, gtkVars, auxVars >>

\* the user edits the input field
edit_input(t) ==
    /\ chat_dialog = "visible"
    /\ input_enabled
    /\ input_text # t
    /\ input_text' = t
    /\ last_op' = "edit_input"
    /\ UNCHANGED << chat_dialog, messages, waiting_for_response, input_enabled,
                    typing_indicator, pending_worker, pending_request_text,
                    workers, ui_events, history_file, history_messages,
                    loaded_count, delivered >>
    /\ UNCHANGED << variant, pos_arg, saved_pos >>
    /\ UNCHANGED << gifVars, gtkVars, auxVars >>

\* ChatDialog._send_message with _request_ai_response.  The slot is run
\* whenever the dialog is shown, whether or not its widgets are enabled.
send_message ==
    /\ chat_dialog = "visible"
    /\ LET text == Strip(input_text)
           file == append_history_entry(history_file, "user", << text >>,
                                        TIMESTAMP)
           system_prompt ==
               render_prompt(get_history_tail(file, history_messages),
                             history_messages)
       IN  IF SendRejected(text, waiting_for_response)
           THEN /\ last_op' = "send_rejected"
                /\ UNCHANGED << messages, history_file, input_text,
                                input_enabled, waiting_for_response,
                                pending_request_text, workers, pending_worker,
                                typing_indicator >>
           ELSE /\ Len(workers) < MaxSends
                /\ last_op' = "send_accepted"
                /\ messages' = Append(messages, Message("user", << text >>))
                /\ history_file' = file
                /\ input_text' = << >>
                /\ input_enabled' = FALSE
                /\ waiting_for_response' = TRUE
                /\ pending_request_text' = Some(<< text >>)
                /\ workers' = Append(workers,
                                     [st |-> "queued",
                                      user_text |-> << text >>,
                                      system_prompt |-> system_prompt,
                                      calls |-> 0,
                                      outcome |-> None])
                /\ pending_worker' = Some(Len(workers) + 1)
                /\ typing_indicator' = TRUE
    /\ UNCHANGED << chat_dialog, ui_events, history_messages, loaded_count,
                    delivered >>
    /\ UNCHANGED << variant, pos_arg, saved_pos >>
    /\ UNCHANGED << gifVars, gtkVars, auxVars >>

\* the queued result signal -> ChatDialog._on_ai_success
on_ai_success ==
    /\ ui_events # << >>
    /\ Head(ui_events).sig = "result"
    /\ ui_events' = Tail(ui_events)
    /\ messages' = Append(messages, Message("cat", Head(ui_events).arg))
    /\ history_file' = append_history_entry(history_file, "cat",
                                            Head(ui_events).arg, TIMESTAMP)
    /\ typing_indicator' = FALSE
    /\ delivered' = delivered \cup { Head(ui_events).worker }
    /\ last_op' = "on_ai_success"
    /\ UNCHANGED << chat_dialog, waiting_for_response, input_enabled,
                    input_text, pending_worker, pending_request_text, workers,
                    history_messages, loaded_count >>
    /\ UNCHANGED << variant, pos_arg, saved_pos >>
    /\ UNCHANGED << gifVars, gtkVars, auxVars >>

\* the queued error signal -> ChatDialog._on_ai_error
on_ai_error ==
    /\ ui_events # << >>
    /\ Head(ui_events).sig = "error"
    /\ ui_events' = Tail(ui_events)
    /\ messages' = Append(messages,
                          Message("cat", ErrorText(Head(ui_events).arg)))
    /\ history_file' = append_history_entry(history_file, "cat",
                                            ErrorText(Head(ui_events).arg),
                                            TIMESTAMP)
    /\ typing_indicator' = FALSE
    /\ delivered' = delivered \cup { Head(ui_events).worker }
    /\ last_op' = "on_ai_error"
    /\ UNCHANGED << chat_dialog, waiting_for_response, input_enabled,
                    input_text, pending_worker, pending_request_text, workers,
                    history_messages, loaded_count >>
    /\ UNCHANGED << variant, pos_arg, saved_pos >>
    /\ UNCHANGED << gifVars, gtkVars, auxVars >>

\* the queued finished signal -> ChatDialog._on_ai_finished
on_ai_finished ==
    /\ ui_events # << >>
    /\ Head(ui_events).sig = "finished"
    /\ ui_events' = Tail(ui_events)
    /\ pending_worker' = None
    /\ waiting_for_response' = FALSE
    /\ input_enabled' = TRUE
    /\ pending_request_text' = None
    /\ typing_indicator' = FALSE
    /\ last_op' = "on_ai_finished"
    /\ UNCHANGED << chat_dialog, messages, input_text, workers, history_file,
                    history_messages, loaded_count, delivered >>
    /\ UNCHANGED << variant, pos_arg, saved_pos >>
    /\ UNCHANGED << gifVars, gtkVars, auxVars >>

\* the cat window is destroyed, and the dialog, its child, with it
on_window_destroyed ==
    /\ chat_dialog # "destroyed"
    /\ chat_dialog' = "destroyed"
    /\ dialogs' = 0
    /\ ui_events' = << >>
    /\ last_op' = "on_window_destroyed"
    /\ UNCHANGED << messages, waiting_for_response, input_enabled, input_text,
                    typing_indicator, pending_worker, pending_request_text,
                    workers, history_file, history_messages, loaded_count,
                    delivered >>
    /\ UNCHANGED << variant, pos_arg, saved_pos >>
    /\ UNCHANGED << press_pos, press_time, mono, mouse_event >>
    /\ UNCHANGED << gifVars, gtkVars, startVars, ollamaVars, restVars >>

\* a faulty worker that resets the dialog's waiting flag from its own thread
WorkerFrame_Shared ==
    /\ waiting_for_response' = FALSE
    /\ UNCHANGED << chat_dialog, messages, input_enabled, input_text,
                    typing_indicator, pending_worker, pending_request_text,
                    history_file, history_messages, loaded_count, delivered >>
    /\ UNCHANGED << variant, pos_arg, saved_pos >>
    /\ UNCHANGED << gifVars, gtkVars, auxVars >>

\* what _LLMWorker.run leaves alone: everything but the worker and its signals
WorkerFrame ==
    /\ UNCHANGED << chat_dialog, messages, waiting_for_response, input_enabled,
                    input_text, typing_indicator, pending_worker,
                    pending_request_text, history_file, history_messages,
                    loaded_count, delivered >>
    /\ UNCHANGED << variant, pos_arg, saved_pos >>
    /\ UNCHANGED << gifVars, gtkVars, auxVars >>

\* a pool thread enters _LLMWorker.run and calls backend.reply
worker_run ==
    \E i \in DOMAIN workers :
        /\ workers[i].st = "queued"
        /\ workers' = [workers EXCEPT ![i].st = "running",
                                      ![i].calls = workers[i].calls + 1]
        /\ last_op' = "worker_run"
        /\ UNCHANGED ui_events
        /\ WorkerFrame

\* backend.reply returns: run emits result
reply_returns ==
    \E i \in DOMAIN workers : \E answer \in Answers :
        /\ workers[i].st = "running"
        /\ workers' = [workers EXCEPT
                          ![i].st = "emitted",
                          ![i].outcome = Some([kind |-> "return",
                                               text |-> answer])]
        /\ ui_events' = Post(ui_events, chat_dialog, Event("result", answer, i))
        /\ last_op' = "reply_returns"
        /\ WorkerFrame

\* backend.reply raises: run emits error
reply_raises ==
    \E i \in DOMAIN workers : \E message \in ErrorMessages :
        /\ workers[i].st = "running"
        /\ workers' = [workers EXCEPT
                          ![i].st = "emitted",
                          ![i].outcome = Some([kind |-> "raise",
                                               text |-> message])]
        /\ ui_events' = Post(ui_events, chat_dialog, Event("error", message, i))
        /\ last_op' = "reply_raises"
        /\ WorkerFrame

\* the finally clause of run emits finished
worker_finally ==
    \E i \in DOMAIN workers :
        /\ workers[i].st = "emitted"
        /\ workers' = [workers EXCEPT ![i].st = "done"]
        /\ ui_events' = Post(ui_events, chat_dialog, Event("finished", << >>, i))
        /\ last_op' = "worker_finally"
        /\ WorkerFrame

(***************************************************************************)
(* SpecGif: the playback cycle of one window.                              *)
(***************************************************************************)
GifSizes == { << 40, 30 >> }

\* the frame counts of the GIFs played
GifCounts == 1..MaxFrames

\* the programs that do not run
IdleQt ==
    InitWindow(NewWindow(MissingIni, "cat", GifOf("cat", 1, << 40, 30 >>), 0,
                         None, TRUE), TRUE)

IdleGtk == InitGtkWindow(NewGtkWindow(MissingJson, 0, 0, None), MissingJson)

IdleChat ==
    /\ InitChatIdle
    /\ history_file = << >>
    /\ history_messages = 0

\* no asset: the value of `asset` outside a start-up
NoAsset == [kind |-> "none", gif |-> BadGif]

\* no chat flag on the command line
NoLlmEnv ==
    [flag |-> "none", openai_pkg |-> FALSE, api_key |-> FALSE,
     numbers_ok |-> TRUE]

\* a run whose start-up and whose chat backend are not looked at
IdleStart ==
    /\ exit_status = None
    /\ window_shown = TRUE
    /\ asset = NoAsset
    /\ llm_env = NoLlmEnv
    /\ llm_context = "none"
    /\ chat_attached = FALSE
    /\ args_image = None

IdleOllama ==
    /\ reply_args = None
    /\ http_request = << >>
    /\ http_response = None
    /\ reply_outcome = None

\* no mouse event seen
NoEvent == [button |-> "none", pos |-> << 0, 0 >>]

\* the controller of a run whose clicks are not looked at
IdleClick ==
    /\ press_pos = None
    /\ press_time = None
    /\ mono = 0
    /\ mouse_event = NoEvent
    /\ dialogs = 0

\* no history file function was called
IdleRound ==
    /\ hist_entries = << >>
    /\ hist_file = << >>
    /\ hist_parsed = << >>

\* load_env_file is not looked at
IdleEnv ==
    /\ environ = << >>
    /\ env_loaded = FALSE
    /\ env_files = << >>
    /\ environ_start = << >>
    /\ load_calls = 0

IdleSlice ==
    /\ sprite_in = None
    /\ slice_out = None

IdleScale ==
    /\ pixmap_in = None
    /\ scale_out = None

IdleRest == IdleRound /\ IdleEnv /\ IdleSlice /\ IdleScale

IdleExt == IdleClick /\ IdleRest

IdleAux == IdleStart /\ IdleOllama /\ IdleExt

InitRun(v, pos, saved) ==
    /\ variant = v
    /\ pos_arg = pos
    /\ saved_pos = saved
    /\ last_op = "start"

InitGif ==
    /\ \E wait \in WaitSet, pil \in BOOLEAN :
           \E gif \in OkGifs(DefaultImage, GifSizes, GifCounts) :
               InitWindow(NewWindow(MissingIni, DefaultImage, gif, wait, None,
                                    pil), pil)
    /\ InitRun("qt", None, None)
    /\ IdleGtk
    /\ IdleChat
    /\ IdleAux

\* the context menu's switch_to_image -> _load_image
SwitchImage(sizes, counts) ==
    \E name \in Names : \E zip \in Zips(name, sizes, counts) :
        /\ variant = "qt"
        /\ switches < MaxSwitches
        /\ switches' = switches + 1
        /\ LoadImage(name, zip)
        /\ saved_pos' = IF zip.kind = "gif" /\ zip.gif.ok THEN Some(win_pos')
                        ELSE saved_pos
        /\ last_op' = IF zip.kind = "gif" /\ zip.gif.ok THEN "switch"
                       ELSE "noswitch"
        /\ UNCHANGED << variant, pos_arg >>
        /\ UNCHANGED << gtkVars, chatVars, auxVars >>

NextGif ==
    \/ OnTick
    \/ OnAnimationFrame
    \/ CompleteSwitchToPng
    \/ Advance
    \/ SwitchImage(GifSizes, GifCounts)

SpecGif == InitGif /\ [][NextGif]_vars

\* Qt fires a timer that is due, and time passes when none is.
LiveGif ==
    /\ SpecGif
    /\ WF_vars(OnTick)
    /\ WF_vars(OnAnimationFrame)
    /\ WF_vars(CompleteSwitchToPng)
    /\ WF_vars(Advance)

(***************************************************************************)
(* LiveBlink: the blink of the GTK window.                                 *)
(***************************************************************************)
InitBlink ==
    /\ \E open_arg \in PhaseArgs, closed_arg \in PhaseArgs :
           InitGtkWindow(NewGtkWindow(MissingJson, open_arg, closed_arg, None),
                         MissingJson)
    /\ InitRun("gtk", None, None)
    /\ IdleQt
    /\ IdleChat
    /\ IdleAux

NextBlink ==
    \/ on_tick
    \/ GtkAdvance

SpecBlink == InitBlink /\ [][NextBlink]_vars

\* GLib runs a timeout that is due, and time passes.
LiveBlink ==
    /\ SpecBlink
    /\ WF_vars(on_tick)
    /\ WF_vars(GtkAdvance)

(***************************************************************************)
(* SpecPos: the window position across drags, image switches and runs.     *)
(***************************************************************************)
\* where a drag can take the window
DragTargets == { [x |-> 0 - 12, y |-> 0], [x |-> 105, y |-> 7] }

\* --pos: absent, or X Y
PosArgs == { None, Some([x |-> 0, y |-> 33]) }

PosSizes == { << 40, 30 >>, << 600, 250 >> }

PosGifs(name) == OkGifs(name, PosSizes, { 1 })

\* PixelCatWindow.mousePressEvent, left button
mousePressEvent ==
    /\ variant = "qt"
    /\ dragging' = TRUE
    /\ last_op' = "press"
    /\ UNCHANGED << state, next_change, wait_time, current_frame, frame_delays,
                    gif_movie, current_pixmap, png_pixmap, file_name,
                    animation_timer, complete_shots, tick_timer, win_pos,
                    win_size, anim_gif_file, static_png_file, cfg_ini, pillow,
                    shown, since_png, switches >>
    /\ UNCHANGED << variant, pos_arg, saved_pos >>
    /\ UNCHANGED << gtkVars, chatVars, auxVars >>

\* PixelCatWindow.mouseMoveEvent: the pointer drags the window to p
mouseMoveEvent(p) ==
    /\ variant = "qt"
    /\ dragging
    /\ win_pos' = p
    /\ last_op' = "move"
    /\ UNCHANGED << state, next_change, wait_time, current_frame, frame_delays,
                    gif_movie, current_pixmap, png_pixmap, file_name,
                    animation_timer, complete_shots, tick_timer, dragging,
                    win_size, anim_gif_file, static_png_file, cfg_ini, pillow,
                    shown, since_png, switches >>
    /\ UNCHANGED << variant, pos_arg, saved_pos >>
    /\ UNCHANGED << gtkVars, chatVars, auxVars >>

\* PixelCatWindow.mouseReleaseEvent, left button, with _save_position
mouseReleaseEvent ==
    /\ variant = "qt"
    /\ dragging
    /\ dragging' = FALSE
    /\ cfg_ini' = save_config(cfg_ini, win_pos)
    /\ saved_pos' = Some(win_pos)
    /\ last_op' = "release"
    /\ UNCHANGED << state, next_change, wait_time, current_frame, frame_delays,
                    gif_movie, current_pixmap, png_pixmap, file_name,
                    animation_timer, complete_shots, tick_timer, win_pos,
                    win_size, anim_gif_file, static_png_file, pillow, shown,
                    since_png, switches >>
    /\ UNCHANGED << variant, pos_arg >>
    /\ UNCHANGED << gtkVars, chatVars, auxVars >>

\* the Qt program is started again: main builds a new window
QtMain ==
    \E name \in Names, pos \in PosArgs : \E gif \in PosGifs(name) :
        LET win == NewWindow(cfg_ini, name, gif, wait_time, pos, pillow)
        IN  /\ variant = "qt"
            /\ state' = win.state
            /\ next_change' = win.next_change
            /\ current_frame' = win.current_frame
            /\ frame_delays' = win.frame_delays
            /\ gif_movie' = win.gif_movie
            /\ current_pixmap' = win.current_pixmap
            /\ png_pixmap' = win.png_pixmap
            /\ file_name' = win.file_name
            /\ animation_timer' = win.animation_timer
            /\ complete_shots' = win.complete_shots
            /\ tick_timer' = win.tick_timer
            /\ dragging' = win.dragging
            /\ win_size' = win.win_size
            /\ win_pos' = win.win_pos
            /\ anim_gif_file' = win.anim_gif_file
            /\ static_png_file' = win.static_png_file
            /\ cfg_ini' = win.cfg_ini
            /\ shown' = << >>
            /\ since_png' = 0
            /\ pos_arg' = pos
            /\ last_op' = "start"
            /\ UNCHANGED << wait_time, pillow, switches, variant, saved_pos >>
            /\ UNCHANGED << gtkVars, chatVars, auxVars >>

\* the GTK program is started again
GtkMain ==
    \E pos \in PosArgs :
        LET win == NewGtkWindow(cfg_json, 0, 0, pos)
        IN  /\ variant = "gtk"
            /\ gtk_state' = win.state
            /\ gtk_current' = win.current
            /\ gtk_next_change' = win.next_change
            /\ open_sec' = win.open_sec
            /\ closed_sec' = win.closed_sec
            /\ phase_args' = win.args
            /\ gtk_tick' = win.tick
            /\ gtk_pos' = win.pos
            /\ gtk_dragging' = win.dragging
            /\ since_switch' = 0
            /\ blink_count' = 0
            /\ pos_arg' = pos
            /\ last_op' = "start"
            /\ UNCHANGED << cfg_json, variant, saved_pos >>
            /\ UNCHANGED << gifVars, chatVars, auxVars >>

InitPos ==
    \E v \in { "qt", "gtk" }, pos \in PosArgs :
        /\ InitRun(v, pos, None)
        /\ IF v = "qt"
           THEN /\ \E name \in Names : \E gif \in PosGifs(name) :
                       InitWindow(NewWindow(MissingIni, name, gif,
                                            SetMax(WaitSet), pos, TRUE), TRUE)
                /\ IdleGtk
           ELSE /\ IdleQt
                /\ InitGtkWindow(NewGtkWindow(MissingJson, 0, 0, pos),
                                 MissingJson)
        /\ IdleChat
        /\ IdleAux

NextPos ==
    \/ mousePressEvent
    \/ \E p \in DragTargets : mouseMoveEvent(p)
    \/ mouseReleaseEvent
    \/ SwitchImage(PosSizes, { 1 })
    \/ QtMain
    \/ on_button_press
    \/ \E p \in DragTargets : on_motion(p)
    \/ on_button_release
    \/ GtkMain

SpecPos == InitPos /\ [][NextPos]_vars

(***************************************************************************)
(* SpecChat: one chat dialog and its workers.                              *)
(***************************************************************************)
\* history.txt as an earlier run left it
OldHistories ==
    { << >>,
      append_history_entry(
          append_history_entry(<< >>, "user", << << "hello" >> >>, TIMESTAMP),
          "cat", << << "meow" >> >>, TIMESTAMP) }

InitChat ==
    /\ InitChatIdle
    /\ history_file \in OldHistories
    /\ history_messages \in HistoryLimits
    /\ InitRun("qt", None, None)
    /\ IdleQt
    /\ IdleGtk
    /\ IdleAux

NextChat ==
    \/ toggle_chat
    \/ closeEvent
    \/ \E t \in InputTexts : edit_input(t)
    \/ send_message
    \/ on_ai_success
    \/ on_ai_error
    \/ on_ai_finished
    \/ on_window_destroyed
    \/ worker_run
    \/ reply_returns
    \/ reply_raises
    \/ worker_finally

SpecChat == InitChat /\ [][NextChat]_vars

\* The pool runs a queued worker, backend.reply ends, and the event loop of
\* the UI thread handles a queued signal.
LiveChat ==
    /\ SpecChat
    /\ WF_vars(worker_run)
    /\ WF_vars(reply_returns \/ reply_raises)
    /\ WF_vars(worker_finally)
    /\ WF_vars(on_ai_success)
    /\ WF_vars(on_ai_error)
    /\ WF_vars(on_ai_finished)

(***************************************************************************)
(* Properties of the playback cycle.                                       *)
(***************************************************************************)
FramesInOrder(n) == [k \in 1..n |-> k - 1]

\* C1: every playback shows frames 0..frameCount-1 once each, in increasing
\* order, before the state returns to "png": whenever the state goes from
\* "gif" back to "png" other than by an image switch, the frames displayed
\* since it left "png" are exactly 0, 1, ..., frameCount-1.
C1_PlayedExactlyOnce ==
    [][ (state = "gif" /\ state' = "png" /\ switches' = switches)
            => shown = FramesInOrder(frameCount(gif_movie.gif)) ]_vars

\* C2: the cycle never gets stuck: "png" always leads to "gif" and "gif" to
\* "png" (0-frame GIFs and image switches included), and "gif" is not entered
\* before wait_time has elapsed since "png" was entered.
C2_CycleNeverStuck ==
    /\ (state = "png") ~> (state = "gif")
    /\ (state = "gif") ~> (state = "png")
    /\ [][ (state = "png" /\ state' = "gif") => since_png >= wait_time ]_vars

\* a playback of a GIF with no frames, after an image switch, with a positive
\* wait
C2_Witness ==
    /\ state = "gif"
    /\ frameCount(gif_movie.gif) = 0
    /\ switches > 0
    /\ wait_time > 0

(***************************************************************************)
(* Properties of the blink.                                                *)
(***************************************************************************)
\* C3: the window starts with the eyes open; a tick switches the state exactly
\* when the duration of the current state has elapsed since the last switch
\* (open_sec for open, closed_sec for closed), nothing else switches it, the
\* two states alternate forever, and the displayed pixbuf always matches the
\* state.
C3_BlinkAlternates ==
    /\ gtk_state = "open"
    /\ [](gtk_current = IF gtk_state = "open" THEN "open_pb" ELSE "closed_pb")
    /\ [][ (gtk_tick = 0 /\ gtk_tick' = GTK_TICK_MS)
             => IF since_switch >= (IF gtk_state = "open" THEN open_sec
                                    ELSE closed_sec)
                THEN gtk_state' # gtk_state
                ELSE gtk_state' = gtk_state ]_vars
    /\ [][ gtk_state' # gtk_state
             => /\ gtk_tick = 0
                /\ since_switch >= (IF gtk_state = "open" THEN open_sec
                                    ELSE closed_sec) ]_vars
    /\ []<>(gtk_state = "open")
    /\ []<>(gtk_state = "closed")

\* the eyes are open again after a full blink, with different durations
C3_Witness ==
    /\ gtk_state = "open"
    /\ blink_count >= 2
    /\ open_sec = MIN_PHASE_MS
    /\ closed_sec > MIN_PHASE_MS

(***************************************************************************)
(* Properties of the window position.                                      *)
(***************************************************************************)
WindowPos == IF variant = "qt" THEN win_pos ELSE gtk_pos

DefaultPos ==
    IF variant = "qt"
    THEN [x |-> Screen.w - win_size.w - DEFAULT_POSITION_OFFSET_X,
          y |-> Screen.h - win_size.h - DEFAULT_POSITION_OFFSET_Y]
    ELSE [x |-> GTK_DEFAULT_POS, y |-> GTK_DEFAULT_POS]

C5_PosOverrides ==
    last_op = "start"
        => WindowPos = IF pos_arg # None THEN pos_arg[1]
                       ELSE IF saved_pos # None THEN saved_pos[1]
                       ELSE DefaultPos

\* the GTK window started with --pos while another position is saved
C5_Witness ==
    /\ variant = "gtk"
    /\ last_op = "start"
    /\ pos_arg # None
    /\ saved_pos # None
    /\ saved_pos # pos_arg

(***************************************************************************)
(* Properties of the chat dialog.                                          *)
(***************************************************************************)
Running == { i \in DOMAIN workers : workers[i].st = "running" }

\* the requests whose worker has not ended or whose signals are still queued
InFlight ==
    { i \in DOMAIN workers :
          \/ workers[i].st # "done"
          \/ \E k \in DOMAIN ui_events : ui_events[k].worker = i }

SendOps == { "send_accepted", "send_rejected" }

ResultOps == { "on_ai_success", "on_ai_error" }

WorkerOps == { "worker_run", "reply_returns", "reply_raises", "worker_finally" }

\* C6: at most one request is in flight, and a send while a response is
\* awaited, or with empty or blank text, appends no message, writes nothing to
\* the history and starts no worker.
C6_OneRequestInFlight ==
    /\ [](Cardinality(InFlight) <= 1)
    /\ [][ (/\ last_op' \in SendOps
            /\ SendRejected(Strip(input_text), waiting_for_response))
             => /\ messages' = messages
                /\ history_file' = history_file
                /\ workers' = workers ]_vars

\* a send was attempted while the worker of the pending request was running
C6_Witness ==
    /\ last_op = "send_rejected"
    /\ waiting_for_response
    /\ Running # { }

\* the messages appended in this session
SessionMessages == SubSeq(messages, loaded_count + 1, Len(messages))

\* the text of the cat message an outcome of backend.reply leads to
ReplyText(outcome) ==
    IF outcome.kind = "return" THEN outcome.text
    ELSE << << "Error: " >> \o Head(outcome.text) >> \o Tail(outcome.text)

\* C7: backend.reply is called once per accepted send, never again; the
\* session's messages alternate user, cat, user, cat, ...; the i-th user
\* message is the i-th request, and it is followed by one cat message, the
\* answer or "Error: <message>", once the worker's result was handled.
C7_NoRetry ==
    /\ \A i \in DOMAIN workers :
           /\ workers[i].calls <= 1
           /\ workers[i].st # "queued" => workers[i].calls = 1
    /\ chat_dialog \in { "visible", "hidden" } =>
           /\ Len(SessionMessages) = Len(workers) + Cardinality(delivered)
           /\ \A k \in DOMAIN SessionMessages :
                  SessionMessages[k].role = IF k % 2 = 1 THEN "user" ELSE "cat"
           /\ \A i \in DOMAIN workers :
                  /\ SessionMessages[2 * i - 1].text = workers[i].user_text
                  /\ i \in delivered =>
                         SessionMessages[2 * i].text =
                             ReplyText(workers[i].outcome[1])
                  /\ (workers[i].st = "done" /\ i \notin InFlight)
                         => i \in delivered

\* a session after old history: a request that failed, then one answered
C7_Witness ==
    /\ loaded_count > 0
    /\ Len(workers) = 2
    /\ delivered = { 1, 2 }
    /\ workers[1].outcome[1].kind = "raise"
    /\ workers[2].outcome[1].kind = "return"
    /\ ~waiting_for_response

\* C8: the finished signal of a worker is handled after its result or error,
\* and a waiting dialog always returns to not waiting, with the input enabled
\* and no typing indicator (unless it is destroyed with the cat window first).
C8_AlwaysFinishes ==
    /\ [][ last_op' = "on_ai_finished"
             => Head(ui_events).worker \in delivered ]_vars
    /\ (chat_dialog \in { "visible", "hidden" } /\ waiting_for_response)
           ~> \/ chat_dialog = "destroyed"
              \/ (~waiting_for_response /\ input_enabled /\ ~typing_indicator)

\* the dialog is ready again after a request whose backend call raised
C8_Witness ==
    /\ last_op = "on_ai_finished"
    /\ ~waiting_for_response
    /\ input_enabled
    /\ ~typing_indicator
    /\ Len(workers) = 1
    /\ workers[1].outcome[1].kind = "raise"

\* C9, as stated: a result that arrives while the dialog is closed (hidden) or
\* no longer exists appends no message and writes nothing to the history.
C9_DiscardedWhenGone ==
    [][ (\/ (chat_dialog = "hidden" /\ last_op' \in ResultOps)
         \/ (chat_dialog = "destroyed"
                 /\ last_op' \in { "reply_returns", "reply_raises" }))
          => /\ messages' = messages
             /\ history_file' = history_file ]_vars

\* C9, amended: nothing is appended or written once the dialog no longer
\* exists, while a dialog that is only closed (hidden) still handles the
\* result: one cat message is appended and the history file grows.
C9_DiscardedWhenDestroyed ==
    /\ [][ chat_dialog = "destroyed"
             => /\ messages' = messages
                /\ history_file' = history_file ]_vars
    /\ [][ (chat_dialog = "hidden" /\ last_op' \in ResultOps)
             => /\ Len(messages') = Len(messages) + 1
                /\ messages'[Len(messages')].role = "cat"
                /\ Len(history_file') > Len(history_file) ]_vars

\* backend.reply ended after the dialog was destroyed, unanswered
C9_Witness ==
    /\ chat_dialog = "destroyed"
    /\ last_op \in { "reply_returns", "reply_raises" }
    /\ waiting_for_response
    /\ delivered = { }

\* C10: the steps of a worker thread change nothing of the dialog (message
\* list, waiting flag, pending-request fields) nor the history file, and leave
\* every worker's user text and system prompt as they were; two workers never
\* run backend.reply at the same time.
C10_NoSharedState ==
    /\ [](Cardinality(Running) <= 1)
    /\ [][ last_op' \in WorkerOps
             => /\ UNCHANGED << messages, waiting_for_response, pending_worker,
                                pending_request_text, history_file >>
                /\ \A i \in DOMAIN workers :
                       /\ workers'[i].user_text = workers[i].user_text
                       /\ workers'[i].system_prompt = workers[i].system_prompt
           ]_vars

\* the second worker calls backend.reply after the first has ended
C10_Witness ==
    /\ Len(workers) = 2
    /\ workers[1].st = "done"
    /\ workers[2].st = "running"
    /\ last_op = "worker_run"

(***************************************************************************)
(* SpecStart: the start-up of both programs, run after run.                *)
(*   A run is main() up to the event loop: the chat set-up, the asset,     *)
(*   the window and its position.  Qt itself initialises and the platform  *)
(*   is not "offscreen".                                                   *)
(***************************************************************************)
\* Python exception classes, each with its base classes
Bases(exc) ==
    IF exc = "LLMDependencyError" THEN { "LLMDependencyError", "RuntimeError" }
    ELSE IF exc = "ModuleNotFoundError"
    THEN { "ModuleNotFoundError", "ImportError" }
    ELSE IF exc = "FileNotFoundError" THEN { "FileNotFoundError", "OSError" }
    ELSE { exc }

\* except (classes): the clause catches exc
Catches(classes, exc) == (Bases(exc) \cup { "Exception" }) \cap classes # { }

Returned(v) == [raised |-> FALSE, exc |-> "none", value |-> v]

Raised(exc) == [raised |-> TRUE, exc |-> exc, value |-> "none"]

\* the status the interpreter exits with on an uncaught exception
UNCAUGHT_STATUS == 1

\* the status of a run that ends when the window is closed
QUIT_STATUS == 0

\* the sprite file of the GTK program: absent, not a loadable image, or fine
Sprites ==
    { [kind |-> k, gif |-> BadGif] : k \in { "missing", "unloadable", "sprite" } }

\* slice_sprite_to_pixbufs
slice_sprite_to_pixbufs(sprite) ==
    IF sprite.kind = "missing" THEN Raised("FileNotFoundError")
    ELSE IF sprite.kind = "unloadable" THEN Raised("GLib.Error")
    ELSE Returned("pixbufs")

\* what images/<name>.zip can hold when main opens it
StartZips(name) ==
    Zips(name, { << 40, 30 >> }, { 1 })
    \cup { [kind |-> "badzip", gif |-> BadGif] }

\* a faulty load that takes the first entry of an archive without a GIF
load_packaged_images_AnyEntry(zip) ==
    IF zip.kind = "missing" THEN Raised("FileNotFoundError")
    ELSE IF zip.kind = "badzip" THEN Raised("ValueError")
    ELSE Returned("images")

\* load_packaged_images: how the call ends
load_packaged_images(zip) ==
    IF zip.kind = "missing" THEN Raised("FileNotFoundError")
    ELSE IF zip.kind = "badzip" THEN Raised("ValueError")
    ELSE IF zip.kind = "nogif" THEN Raised("ValueError")
    ELSE IF ~zip.gif.ok THEN Raised("ValueError")
    ELSE IF zip.kind = "pngfail" THEN Raised("ValueError")
    ELSE Returned("images")

\* the chat flags and settings of a run: the flag given, whether the openai
\* package can be imported, whether an API key is configured, and whether
\* the numeric settings (OLLAMA_TIMEOUT, LLM_HISTORY_MESSAGES) are numbers
LlmEnvs ==
    { NoLlmEnv }
    \cup { [flag |-> "openai", openai_pkg |-> p, api_key |-> k,
            numbers_ok |-> n] : p \in BOOLEAN, k \in BOOLEAN, n \in BOOLEAN }
    \cup { [flag |-> "ollama", openai_pkg |-> FALSE, api_key |-> FALSE,
            numbers_ok |-> n] : n \in BOOLEAN }

\* load_llm_settings
load_llm_settings(env) ==
    IF env.numbers_ok THEN Returned("settings") ELSE Raised("ValueError")

\* create_backend
create_backend(name, env) ==
    IF name = "openai"
    THEN IF ~env.api_key THEN Raised("LLMDependencyError")
         ELSE IF ~env.openai_pkg THEN Raised("ModuleNotFoundError")
         ELSE Returned("openai")
    ELSE IF name = "ollama" THEN Returned("ollama")
    ELSE Raised("LLMDependencyError")

\* llm.initialize: the backend name of the context, "none" for no context
initialize(env) ==
    IF env.flag = "none" THEN Returned("none")
    ELSE IF load_llm_settings(env).raised THEN load_llm_settings(env)
    ELSE LET backend == create_backend(env.flag, env)
         IN  IF ~backend.raised THEN backend
             ELSE IF Catches({ "LLMDependencyError", "ImportError",
                               "RuntimeError" }, backend.exc)
             THEN Returned("none")
             ELSE backend

\* the values config.ini can hold for x and y
PosTexts == { << "7" >>, << "a" >> }

\* config.ini as a user or an earlier run left it
IniInputs ==
    { MissingIni, CorruptIni }
    \cup { [status |-> "ok", window |-> TRUE, x |-> Some(tx), y |-> Some(ty),
            settings |-> (d # None), default_image |-> d] :
             tx \in PosTexts, ty \in PosTexts,
             d \in { None, Some("dog"), Some("bird") } }

CorruptJson == [status |-> "corrupt", x |-> None, y |-> None]

\* config.json as a user or an earlier run left it
JsonInputs ==
    { MissingJson, CorruptJson }
    \cup { [status |-> "ok", x |-> Some(tx), y |-> Some(ty)] :
             tx \in PosTexts, ty \in PosTexts }

\* --image: absent, or the path of an archive
ImageArgs == { None, Some("dog") }

\* a faulty choice that takes the name of config.ini as it is
StartImage_Unchecked(image_arg, ini) ==
    IF image_arg # None THEN image_arg[1]
    ELSE LET default_image == load_image_from_ini(ini)
         IN  IF default_image # None THEN default_image[1] ELSE DefaultImage

\* the archive main loads: --image, else the image of config.ini when it is
\* one of the available archives, else cat
StartImage(image_arg, ini) ==
    IF image_arg # None THEN image_arg[1]
    ELSE LET default_image == load_image_from_ini(ini)
         IN  IF default_image # None /\ default_image[1] \in Names
             THEN default_image[1]
             ELSE DefaultImage

\* the temp files a failed load_packaged_images leaves behind
FailedLoadFiles(zip) ==
    /\ anim_gif_file' = IF zip.kind \in { "gif", "pngfail" } THEN zip.gif
                        ELSE anim_gif_file
    /\ static_png_file' = IF zip.kind = "pngfail" THEN NullPix
                          ELSE static_png_file

\* main of src/mycat/main.py, from the command line to window.show()
RunQt ==
    \E image_arg \in ImageArgs, pos \in PosArgs, env \in LlmEnvs :
      \E zip \in StartZips(StartImage(image_arg, cfg_ini)), wait \in WaitSet :
        LET name    == StartImage(image_arg, cfg_ini)
            context == initialize(env)
            images  == load_packaged_images(zip)
            win     == NewWindow(cfg_ini, name, zip.gif, wait, pos, pillow)
        IN  /\ variant = "qt"
            /\ ~window_shown
            /\ exit_status = None
            /\ asset' = IF context.raised THEN NoAsset ELSE zip
            /\ llm_env' = env
            /\ args_image' = image_arg
            /\ pos_arg' = pos
            /\ last_op' = "start"
            /\ IF context.raised
               THEN /\ exit_status' = Some(UNCAUGHT_STATUS)
                    /\ UNCHANGED << window_shown, llm_context, chat_attached >>
                    /\ UNCHANGED gifVars
               ELSE IF images.raised
               THEN /\ exit_status' = Some(2)
                    /\ llm_context' = context.value
                    /\ FailedLoadFiles(zip)
                    /\ UNCHANGED << window_shown, chat_attached >>
                    /\ UNCHANGED << state, next_change, wait_time,
                                    current_frame, frame_delays, gif_movie,
                                    current_pixmap, png_pixmap, file_name,
                                    animation_timer, complete_shots,
                                    tick_timer, dragging, win_pos, win_size,
                                    cfg_ini, pillow, shown, since_png,
                                    switches >>
               ELSE /\ exit_status' = None
                    /\ llm_context' = context.value
                    /\ chat_attached' = (context.value # "none")
                    /\ window_shown' = TRUE
                    /\ state' = win.state
                    /\ next_change' = win.next_change
                    /\ current_frame' = win.current_frame
                    /\ frame_delays' = win.frame_delays
                    /\ gif_movie' = win.gif_movie
                    /\ current_pixmap' = win.current_pixmap
                    /\ png_pixmap' = win.png_pixmap
                    /\ file_name' = win.file_name
                    /\ animation_timer' = win.animation_timer
                    /\ complete_shots' = win.complete_shots
                    /\ tick_timer' = win.tick_timer
                    /\ dragging' = win.dragging
                    /\ win_size' = win.win_size
                    /\ win_pos' = win.win_pos
                    /\ anim_gif_file' = win.anim_gif_file
                    /\ static_png_file' = win.static_png_file
                    /\ cfg_ini' = win.cfg_ini
                    /\ shown' = << >>
                    /\ since_png' = 0
                    /\ wait_time' = win.wait_time
                    /\ UNCHANGED << pillow, switches >>
            /\ UNCHANGED << variant, saved_pos >>
            /\ UNCHANGED << gtkVars, chatVars, ollamaVars, extVars >>

\* main of src/main.py, from the command line to win.show_all()
RunGtk ==
    \E sprite \in Sprites, pos \in PosArgs :
      \E open_arg \in PhaseArgs, closed_arg \in PhaseArgs :
        LET pixbufs == slice_sprite_to_pixbufs(sprite)
            win     == NewGtkWindow(cfg_json, open_arg, closed_arg, pos)
        IN  /\ variant = "gtk"
            /\ ~window_shown
            /\ exit_status = None
            /\ asset' = sprite
            /\ pos_arg' = pos
            /\ last_op' = "start"
            /\ IF sprite.kind = "missing"
               THEN /\ exit_status' = Some(1)
                    /\ UNCHANGED << window_shown, gtkVars >>
               ELSE IF pixbufs.raised
               THEN /\ exit_status' = Some(2)
                    /\ UNCHANGED << window_shown, gtkVars >>
               ELSE /\ exit_status' = None
                    /\ window_shown' = TRUE
                    /\ gtk_state' = win.state
                    /\ gtk_current' = win.current
                    /\ gtk_next_change' = win.next_change
                    /\ open_sec' = win.open_sec
                    /\ closed_sec' = win.closed_sec
                    /\ phase_args' = win.args
                    /\ gtk_tick' = win.tick
                    /\ gtk_pos' = win.pos
                    /\ gtk_dragging' = win.dragging
                    /\ since_switch' = 0
                    /\ blink_count' = 0
                    /\ UNCHANGED cfg_json
            /\ UNCHANGED << variant, saved_pos >>
            /\ UNCHANGED << llm_env, llm_context, chat_attached, args_image >>
            /\ UNCHANGED << gifVars, chatVars, ollamaVars, extVars >>

\* Quit of the context menu: the event loop returns and the process ends
Quit ==
    /\ window_shown
    /\ window_shown' = FALSE
    /\ exit_status' = Some(QUIT_STATUS)
    /\ chat_attached' = FALSE
    /\ last_op' = "quit"
    /\ UNCHANGED << asset, llm_env, llm_context, args_image >>
    /\ UNCHANGED << variant, pos_arg, saved_pos >>
    /\ UNCHANGED << gifVars, gtkVars, chatVars, ollamaVars, extVars >>

\* the window variables while no window exists
NoWindow(pil) ==
    NewWindow(MissingIni, DefaultImage, GifOf(DefaultImage, 1, << 40, 30 >>),
              0, None, pil)

\* the process has ended: back at the command line, the files stay
Again ==
    /\ exit_status # None
    /\ exit_status' = None
    /\ asset' = NoAsset
    /\ llm_env' = NoLlmEnv
    /\ llm_context' = "none"
    /\ args_image' = None
    /\ pos_arg' = None
    /\ last_op' = "again"
    /\ IF variant = "qt"
       THEN /\ state' = NoWindow(pillow).state
            /\ next_change' = NoWindow(pillow).next_change
            /\ wait_time' = NoWindow(pillow).wait_time
            /\ current_frame' = NoWindow(pillow).current_frame
            /\ frame_delays' = NoWindow(pillow).frame_delays
            /\ gif_movie' = NoWindow(pillow).gif_movie
            /\ current_pixmap' = NoWindow(pillow).current_pixmap
            /\ png_pixmap' = NoWindow(pillow).png_pixmap
            /\ file_name' = NoWindow(pillow).file_name
            /\ win_pos' = NoWindow(pillow).win_pos
            /\ win_size' = NoWindow(pillow).win_size
            /\ UNCHANGED << animation_timer, complete_shots, tick_timer,
                            dragging, anim_gif_file, static_png_file, cfg_ini,
                            pillow, shown, since_png, switches >>
            /\ UNCHANGED gtkVars
       ELSE /\ gtk_pos' = GtkDefaultPos
            /\ open_sec' = MIN_PHASE_MS
            /\ closed_sec' = MIN_PHASE_MS
            /\ phase_args' = [open |-> 0, closed |-> 0]
            /\ gtk_next_change' = MIN_PHASE_MS
            /\ UNCHANGED << gtk_state, gtk_current, gtk_tick, gtk_dragging,
                            cfg_json, since_switch, blink_count >>
            /\ UNCHANGED gifVars
    /\ UNCHANGED << window_shown, chat_attached >>
    /\ UNCHANGED << variant, saved_pos >>
    /\ UNCHANGED << chatVars, ollamaVars, extVars >>

\* before the first run: no window, the config file as it was left
InitStart ==
    \E v \in { "qt", "gtk" } :
        /\ variant = v
        /\ pos_arg = None
        /\ saved_pos = None
        /\ last_op = "again"
        /\ IF v = "qt"
           THEN /\ \E ini \in IniInputs, pil \in BOOLEAN :
                       InitWindow([NoWindow(pil) EXCEPT !.cfg_ini = ini], pil)
                /\ IdleGtk
           ELSE /\ IdleQt
                /\ \E json \in JsonInputs :
                       InitGtkWindow([NewGtkWindow(json, 0, 0, None)
                                         EXCEPT !.pos = GtkDefaultPos], json)
        /\ IdleChat
        /\ exit_status = None
        /\ window_shown = FALSE
        /\ asset = NoAsset
        /\ llm_env = NoLlmEnv
        /\ llm_context = "none"
        /\ chat_attached = FALSE
        /\ args_image = None
        /\ IdleOllama
        /\ IdleExt

NextStart ==
    \/ RunQt
    \/ RunGtk
    \/ Quit
    \/ Again

SpecStart == InitStart /\ [][NextStart]_vars

\* a run whose asset could not be loaded
AssetFailed ==
    IF variant = "gtk" THEN asset.kind \in { "missing", "unloadable" }
    ELSE \/ asset.kind \in { "missing", "badzip", "nogif", "pngfail" }
         \/ asset.kind = "gif" /\ ~asset.gif.ok

\* C11: a run whose asset fails to load ends with a non-zero status and shows
\* no window: status 1 for a missing sprite and 2 for an unloadable sprite in
\* the GTK program, status 2 for every failure of load_packaged_images in the
\* Qt program.
C11_AssetFailureExits ==
    (last_op = "start" /\ AssetFailed)
        => /\ ~window_shown
           /\ exit_status = IF variant = "gtk" /\ asset.kind = "missing"
                            THEN Some(1) ELSE Some(2)

\* the Qt program was started on an archive whose GIF cannot be decoded
C11_Witness ==
    /\ last_op = "start"
    /\ variant = "qt"
    /\ asset.kind = "gif"
    /\ ~asset.gif.ok
    /\ exit_status = Some(2)
    /\ ~window_shown

\* the config file is missing, cannot be parsed, or holds an x or a y that
\* is not an integer
UnreadablePosition(cfg) ==
    \/ cfg.status \in { "missing", "corrupt" }
    \/ /\ cfg.status = "ok"
       /\ \/ cfg.x # None /\ ~ParseInt(cfg.x[1]).ok
          \/ cfg.y # None /\ ~ParseInt(cfg.y[1]).ok

\* C12: a window started without --pos on a config file that is missing,
\* unparseable, or whose x or y is not an integer is placed at the default
\* position in both coordinates: bottom-right with an offset of 10 in the Qt
\* program, (100, 100) in the GTK program.
C12_DefaultOnUnreadable ==
    [][ (/\ last_op' = "start"
         /\ window_shown'
         /\ pos_arg' = None
         /\ UnreadablePosition(IF variant = "qt" THEN cfg_ini ELSE cfg_json))
            => IF variant = "qt"
               THEN win_pos' =
                        [x |-> Screen.w - win_size'.w - DEFAULT_POSITION_OFFSET_X,
                         y |-> Screen.h - win_size'.h - DEFAULT_POSITION_OFFSET_Y]
               ELSE gtk_pos' = GtkDefaultPos ]_vars

\* C13: config.ini holds the position and the image name independently.
\* Whatever the interleaving of drags, image switches and restarts, the file
\* holds the image saved last and the position saved last; a drag's save
\* (save_config) leaves the stored default_image as it was and a start's save
\* (save_image_to_ini) leaves the stored x and y as they were.
C13_IndependentSettings ==
    /\ [](variant = "qt"
            => /\ cfg_ini.default_image = Some(file_name)
               /\ saved_pos # None
                    => /\ cfg_ini.x = Some(IntToStr(saved_pos[1].x))
                       /\ cfg_ini.y = Some(IntToStr(saved_pos[1].y)))
    /\ [][ (variant = "qt" /\ last_op' = "release")
             => /\ cfg_ini'.settings = cfg_ini.settings
                /\ cfg_ini'.default_image = cfg_ini.default_image ]_vars
    /\ [][ (variant = "qt" /\ last_op' = "start")
             => /\ cfg_ini'.window = cfg_ini.window
                /\ cfg_ini'.x = cfg_ini.x
                /\ cfg_ini'.y = cfg_ini.y ]_vars

\* the program was restarted on the dog after a drag had saved a position
C13_Witness ==
    /\ variant = "qt"
    /\ last_op = "start"
    /\ saved_pos # None
    /\ cfg_ini.x = Some(IntToStr(saved_pos[1].x))
    /\ cfg_ini.default_image = Some("dog")

\* C14: the effective open and closed durations are the requested ones
\* raised to 50 ms, also for a request of 0 or below; the state only switches
\* when at least 50 ms have passed since the last switch (or the start), so a
\* tick that follows a switch by 16 ms or less never switches again.
C14_PhasesClamped ==
    /\ [](/\ open_sec = Max(MIN_PHASE_MS, phase_args.open)
          /\ closed_sec = Max(MIN_PHASE_MS, phase_args.closed)
          /\ open_sec >= MIN_PHASE_MS
          /\ closed_sec >= MIN_PHASE_MS)
    /\ [][ gtk_state' # gtk_state => since_switch >= MIN_PHASE_MS ]_vars
    /\ [][ (/\ gtk_tick = 0
            /\ gtk_tick' = GTK_TICK_MS
            /\ since_switch <= GTK_TICK_MS) => gtk_state' = gtk_state ]_vars

\* the eyes are open again after a full blink with --open -0.02 --closed 0
C14_Witness ==
    /\ phase_args.open < 0
    /\ phase_args.closed = 0
    /\ blink_count >= 2
    /\ gtk_state = "open"

\* C15: every entry of the frame-delay table is above 0 ms -- a frame whose
\* delay in the GIF is zero or absent has an entry of 100 ms -- and the
\* animation timer is never started with an interval of 0 ms or less.
C15_DelaysClamped ==
    /\ \A k \in DOMAIN frame_delays : frame_delays[k] > 0
    /\ pillow /\ anim_gif_file.ok /\ Len(frame_delays) = Len(anim_gif_file.delays)
         => \A k \in DOMAIN frame_delays :
                (anim_gif_file.delays[k] \in { None, Some(0) })
                    => frame_delays[k] = DEFAULT_DELAY_MS
    /\ animation_timer.active => animation_timer.interval > 0

\* C16: the frame-delay table is never empty; when the delays cannot be read
\* from the GIF file (no Pillow) the table built by the constructor or by an
\* image switch holds one entry of 100 ms for each frame of the movie, and
\* the single entry 100 for a movie without frames.
C16_DefaultDelays ==
    /\ frame_delays # << >>
    /\ (~pillow /\ anim_gif_file.ok /\ ~static_png_file.null)
         => /\ frameCount(gif_movie.gif) > 0
            /\ frame_delays = Replicate(DEFAULT_DELAY_MS,
                                        frameCount(gif_movie.gif))
    /\ WindowFrameDelays(BadGif, BadGif, pillow) = << DEFAULT_DELAY_MS >>

\* without Pillow, the window was switched to a GIF of two frames
C16_Witness ==
    /\ ~pillow
    /\ switches = 1
    /\ file_name = "dog"
    /\ frameCount(gif_movie.gif) = 2
    /\ frame_delays = << DEFAULT_DELAY_MS, DEFAULT_DELAY_MS >>

(***************************************************************************)
(* SpecOllama: OllamaBackend.reply, call after call.                       *)
(*   A text is a sequence of tokens, " " being white space.                *)
(***************************************************************************)
\* OLLAMA_URL as configured, with and without a trailing slash
OllamaUrls == { << "http://h" >>, << "http://h", "/" >> }

RECURSIVE RStripSlash(_)
\* url.rstrip('/')
RStripSlash(url) ==
    IF url # << >> /\ url[Len(url)] = "/"
    THEN RStripSlash(SubSeq(url, 1, Len(url) - 1))
    ELSE url

\* OllamaBackend.__init__: self.chat_url
chat_url(url) == RStripSlash(url) \o << "/api/chat" >>

\* the arguments of a call: the backend's fields, user_text, system_prompt
ReplyArgs ==
    { [url |-> u, model |-> "llama", user_text |-> t, system_prompt |-> p] :
        u \in OllamaUrls, t \in { << "hi" >>, << " ", "hi", " " >> },
        p \in { << "cat" >>, << >> } }

\* the content values of a response: absent, null, a number, a string
Contents ==
    { [type |-> "absent", num |-> 0, text |-> << >>],
      [type |-> "null", num |-> 0, text |-> << >>] }
    \cup { [type |-> "number", num |-> n, text |-> << >>] : n \in { 0, 5 } }
    \cup { [type |-> "string", num |-> 0, text |-> t] :
             t \in { << >>, << " " >>, << "meow" >>, << " ", "meow", " " >> } }

NoContent == [type |-> "absent", num |-> 0, text |-> << >>]

\* What the server does with the request.  kind: "http_error" (a status that
\* makes urlopen raise HTTPError), "url_error" (no connection: URLError),
\* "timeout" (the connection is made and no response arrives in time:
\* getresponse raises TimeoutError), "not_utf8", "not_json", "json_array"
\* (a JSON value that is no object), "json_object"; message: the kind of the
\* object's "message" member.
ServerReplies ==
    { [kind |-> k, message |-> "absent", content |-> NoContent] :
        k \in { "http_error", "url_error", "timeout", "not_utf8", "not_json",
                "json_array" } }
    \cup { [kind |-> "json_object", message |-> m, content |-> NoContent] :
             m \in { "absent", "null", "string" } }
    \cup { [kind |-> "json_object", message |-> "object", content |-> c] :
             c \in Contents }

\* the request reply builds
Request(args) ==
    [method |-> "POST",
     url |-> chat_url(args.url),
     content_type |-> "application/json",
     body |-> [model |-> args.model,
               messages |-> << [role |-> "system",
                                content |-> args.system_prompt],
                               [role |-> "user", content |-> args.user_text] >>,
               stream |-> FALSE]]

Returns(text) == [kind |-> "return", exc |-> "none", text |-> text]

Raises(exc) == [kind |-> "raise", exc |-> exc, text |-> << >>]

\* message.strip() if isinstance(message, str) else str(message or "").strip()
ContentText(content) ==
    IF content.type = "string" THEN Strip(content.text)
    ELSE IF content.type = "number" /\ content.num # 0
    THEN NatToStr(content.num)
    ELSE << >>

\* a faulty reply that returns the text without testing it
OllamaBackend_reply_Unchecked(response) ==
    IF response.kind \in { "http_error", "url_error", "not_json" }
    THEN Raises("RuntimeError")
    ELSE IF response.kind = "timeout" THEN Raises("TimeoutError")
    ELSE IF response.kind = "not_utf8" THEN Raises("UnicodeDecodeError")
    ELSE IF response.kind = "json_array" THEN Raises("AttributeError")
    ELSE IF response.message \in { "null", "string" }
    THEN Raises("AttributeError")
    ELSE Returns(ContentText(response.content))

\* OllamaBackend.reply: how the call ends for what the server does
OllamaBackend_reply(response) ==
    IF response.kind \in { "http_error", "url_error", "not_json" }
    THEN Raises("RuntimeError")
    ELSE IF response.kind = "timeout" THEN Raises("TimeoutError")
    ELSE IF response.kind = "not_utf8" THEN Raises("UnicodeDecodeError")
    ELSE IF response.kind = "json_array" THEN Raises("AttributeError")
    ELSE IF response.message \in { "null", "string" }
    THEN Raises("AttributeError")
    ELSE IF ContentText(response.content) = << >> THEN Raises("RuntimeError")
    ELSE Returns(ContentText(response.content))

\* backend.reply(user_text, system_prompt) runs from the request to its end
reply ==
    \E response \in ServerReplies :
        /\ reply_args # None
        /\ reply_outcome = None
        /\ http_request' = Append(http_request, Request(reply_args[1]))
        /\ http_response' = Some(response)
        /\ reply_outcome' = Some(OllamaBackend_reply(response))
        /\ UNCHANGED reply_args
        /\ UNCHANGED << gifVars, gtkVars, runVars, chatVars, startVars,
                        extVars >>

\* the worker of the next message calls the backend
next_reply ==
    \E args \in ReplyArgs :
        /\ reply_outcome # None
        /\ reply_args' = Some(args)
        /\ http_request' = << >>
        /\ http_response' = None
        /\ reply_outcome' = None
        /\ UNCHANGED << gifVars, gtkVars, runVars, chatVars, startVars,
                        extVars >>

InitOllama ==
    /\ reply_args \in { Some(args) : args \in ReplyArgs }
    /\ http_request = << >>
    /\ http_response = None
    /\ reply_outcome = None
    /\ InitChatIdle
    /\ history_file = << >>
    /\ history_messages = 0
    /\ InitRun("qt", None, None)
    /\ IdleQt
    /\ IdleGtk
    /\ IdleStart
    /\ IdleExt

NextOllama ==
    \/ reply
    \/ next_reply

SpecOllama == InitOllama /\ [][NextOllama]_vars

\* the call failed before a JSON object with a usable message was read
HttpCallFailed ==
    http_response[1].kind \in { "http_error", "url_error", "timeout" }

BodyNotJson == http_response[1].kind = "not_json"

ContentMissingOrBlank ==
    /\ http_response[1].kind = "json_object"
    /\ \/ http_response[1].message \in { "absent", "null" }
       \/ /\ http_response[1].message = "object"
          /\ \/ http_response[1].content.type \in { "absent", "null" }
             \/ /\ http_response[1].content.type = "string"
                /\ Strip(http_response[1].content.text) = << >>

\* the request is one POST of {model, messages: [system, user], stream: false}
OneRequest ==
    /\ Len(http_request) = 1
    /\ http_request[1].method = "POST"
    /\ http_request[1].body.model = reply_args[1].model
    /\ http_request[1].body.messages =
           << [role |-> "system", content |-> reply_args[1].system_prompt],
              [role |-> "user", content |-> reply_args[1].user_text] >>
    /\ http_request[1].body.stream = FALSE

\* C17 as stated: one POST of {model, messages, stream}; the stripped content
\* is returned; a failed HTTP call, a body that is not JSON and a missing or
\* blank content each raise RuntimeError; an empty string is never returned.
C17_RaisesRuntimeError ==
    reply_outcome # None
        => /\ OneRequest
           /\ reply_outcome[1].kind = "return" => reply_outcome[1].text # << >>
           /\ (HttpCallFailed \/ BodyNotJson \/ ContentMissingOrBlank)
                => reply_outcome[1] = Raises("RuntimeError")

\* C17, amended: one POST of {model, messages, stream}; a content string is
\* returned stripped, and only when it is not blank; an HTTP error status, a
\* refused connection, a body that is not JSON and a missing or blank content
\* inside a message object raise RuntimeError; a response that does not
\* arrive in time and a message that is not an object raise another
\* exception; an empty string is never returned.
C17_RaisesOrReturnsText ==
    reply_outcome # None
        => /\ OneRequest
           /\ reply_outcome[1].kind = "return"
                => /\ reply_outcome[1].text # << >>
                   /\ http_response[1].kind = "json_object"
                   /\ http_response[1].message = "object"
                   /\ http_response[1].content.type = "string"
                        => reply_outcome[1].text =
                               Strip(http_response[1].content.text)
           /\ (HttpCallFailed \/ BodyNotJson \/ ContentMissingOrBlank)
                => reply_outcome[1].kind = "raise"
           /\ (\/ http_response[1].kind \in { "http_error", "url_error",
                                              "not_json" }
               \/ /\ ContentMissingOrBlank
                  /\ http_response[1].message # "null")
                => reply_outcome[1] = Raises("RuntimeError")
           /\ http_response[1].kind = "timeout"
                => reply_outcome[1] = Raises("TimeoutError")
           /\ (http_response[1].kind = "json_object"
                 /\ http_response[1].message = "null")
                => reply_outcome[1] = Raises("AttributeError")

\* the server answered with a blank content, and the call raised
C17_Witness ==
    /\ reply_outcome = Some(Raises("RuntimeError"))
    /\ http_response # None
    /\ http_response[1].kind = "json_object"
    /\ http_response[1].message = "object"
    /\ http_response[1].content.type = "string"
    /\ http_response[1].content.text = << " " >>
    /\ Len(http_request) = 1

\* C18: the chat set-up never stops the cat.  Whenever the Qt program is
\* started on a loadable archive the window is built and shown; initialize
\* returns no context without --openai / --ollama and when the OpenAI backend
\* cannot be created (package missing, no API key); the chat controller is
\* attached exactly when a context was returned.
C18_ChatNeverStopsCat ==
    (last_op = "start" /\ variant = "qt" /\ ~AssetFailed)
        => /\ window_shown
           /\ exit_status = None
           /\ chat_attached <=> llm_context # "none"
           /\ llm_env.flag = "none" => llm_context = "none"
           /\ (llm_env.flag = "openai"
                 /\ ~(llm_env.openai_pkg /\ llm_env.api_key))
                => llm_context = "none"

\* C19: while the state is 'gif' the 16 ms tick changes nothing of the
\* playback: state, current_frame, next_change, the movie, the displayed
\* pixmap, the delay table and the animation timer stay as they are.
C19_TickIdleWhilePlaying ==
    [][ (state = "gif" /\ tick_timer = 0 /\ tick_timer' = TICK_MS)
          => UNCHANGED << state, current_frame, next_change, gif_movie,
                          current_pixmap, frame_delays, animation_timer,
                          complete_shots, shown >> ]_vars

\* a tick has just run while the animation timer of a playback was counting
C19_Witness ==
    /\ state = "gif"
    /\ tick_timer = TICK_MS
    /\ animation_timer.active
    /\ animation_timer.left > 0
    /\ animation_timer.left < animation_timer.interval
    /\ next_change = 0

\* C20: whenever the state is 'png' the displayed pixmap is the static first
\* frame of the selected image and the animation timer is not running.
C20_StaticWhilePng ==
    state = "png"
        => /\ ~animation_timer.active
           /\ current_pixmap = png_pixmap
           /\ current_pixmap.src = "png"
           /\ current_pixmap.frame = 0
           /\ current_pixmap.img \in OkGifs(file_name, GifSizes, GifCounts)

\* C21: an image switch that fails leaves the window with the previous
\* image: file_name, the pixmaps, the movie, the delay table, state,
\* next_change, the geometry, config.ini and the two temp files the next
\* playback reads are as before the attempt.
C21_FailedSwitchKeepsImage ==
    [][ (switches' # switches /\ last_op' = "noswitch")
          => UNCHANGED << file_name, png_pixmap, current_pixmap, gif_movie,
                          frame_delays, state, next_change, win_pos,
                          win_size, cfg_ini, anim_gif_file,
                          static_png_file >> ]_vars

\* C22: during playback frame k (k < frameCount-1) stays on display for
\* frame_delays[k] ms: the timer whose expiry replaces it with frame k+1 is
\* started, when frame k is put on display, with frame k's own delay.
C22_FrameShownForOwnDelay ==
    [][ ( /\ state = "gif"
          /\ Len(shown') = Len(shown) + 1
          /\ current_frame < frameCount(gif_movie.gif) - 1
          /\ current_frame < Len(frame_delays) )
          => animation_timer' = StartTimer(frame_delays[current_frame + 1]) ]_vars

\* the position config.ini holds, read back as integers
IniPosition(ini) ==
    [x |-> ParseInt(ini.x[1]).val, y |-> ParseInt(ini.y[1]).val]

StartedWithoutImage ==
    /\ variant = "qt"
    /\ last_op' = "start"
    /\ ~window_shown
    /\ window_shown'
    /\ args_image' = None

\* the image the claim names for a start on config.ini `ini`
IniImage(ini) ==
    IF /\ ini.status = "ok"
       /\ ini.settings
       /\ ini.default_image # None
       /\ ini.default_image[1] \in Names
    THEN ini.default_image[1]
    ELSE "cat"

\* C24 (as stated): a start without --image loads the image config.ini names
\* when that is an available archive and cat otherwise, and config.ini then
\* names the image loaded as default_image.
C24_DefaultImageSaved ==
    [][ StartedWithoutImage
          => /\ file_name' = IniImage(cfg_ini)
             /\ load_image_from_ini(cfg_ini') = Some(file_name') ]_vars

\* C24 (amended): the same, except that a config.ini that cannot be parsed
\* is left as it is; cat is loaded and no name is written.
C24_DefaultImageSavedIfParsed ==
    [][ StartedWithoutImage
          => /\ file_name' = IniImage(cfg_ini)
             /\ IF cfg_ini.status = "corrupt"
                THEN cfg_ini' = cfg_ini /\ file_name' = "cat"
                ELSE load_image_from_ini(cfg_ini') = Some(file_name') ]_vars

\* the Qt program, started without --image, shows the dog that config.ini
\* names, and config.ini still names it
C24_Witness ==
    /\ variant = "qt"
    /\ last_op = "start"
    /\ window_shown
    /\ args_image = None
    /\ file_name = "dog"
    /\ cfg_ini.default_image = Some("dog")

(***************************************************************************)
(* SpecClick: the event filter of the chat controller on the cat window.   *)
(***************************************************************************)
\* the press/release pair counts as a click below 0.25 s and below 6 px
CLICK_MS == 250

CLICK_DISTANCE == 6

\* the global pointer positions of the mouse events
ClickPoints == { << 0, 0 >>, << 3, 2 >>, << 3, 3 >> }

Buttons == { "left", "right" }

\* QPoint.manhattanLength of p - q
manhattanLength(p, q) ==
    (IF p[1] >= q[1] THEN p[1] - q[1] ELSE q[1] - p[1])
    + (IF p[2] >= q[2] THEN p[2] - q[2] ELSE q[2] - p[2])

\* a faulty test that also takes the limits themselves as a click
IsClick_Inclusive(duration, distance) ==
    duration <= CLICK_MS /\ distance <= CLICK_DISTANCE

\* _handle_release: duration < 0.25 and distance < 6
IsClick(duration, distance) ==
    duration < CLICK_MS /\ distance < CLICK_DISTANCE

\* what the event filter leaves alone
ClickFrame ==
    /\ UNCHANGED << input_enabled, input_text, workers, ui_events,
                    history_file, history_messages, delivered >>
    /\ UNCHANGED << variant, pos_arg, saved_pos >>
    /\ UNCHANGED << gifVars, gtkVars, startVars, ollamaVars, restVars >>

\* eventFilter: MouseButtonPress -> _LLMController._handle_press
handle_press(button, p) ==
    /\ chat_dialog # "destroyed"
    /\ mouse_event' = [button |-> button, pos |-> p]
    /\ last_op' = "press"
    /\ IF button = "left"
       THEN press_pos' = Some(p) /\ press_time' = Some(mono)
       ELSE UNCHANGED << press_pos, press_time >>
    /\ UNCHANGED << chat_dialog, dialogs, messages, loaded_count,
                    waiting_for_response, pending_worker,
                    pending_request_text, typing_indicator, mono >>
    /\ ClickFrame

\* eventFilter: MouseButtonRelease -> _LLMController._handle_release
handle_release(button, p) ==
    /\ chat_dialog # "destroyed"
    /\ mouse_event' = [button |-> button, pos |-> p]
    /\ last_op' = "release"
    /\ IF button = "left" /\ press_time # None /\ press_pos # None
       THEN LET duration == mono - press_time[1]
                distance == manhattanLength(p, press_pos[1])
            IN  /\ press_time' = None
                /\ press_pos' = None
                /\ IF IsClick(duration, distance)
                   THEN ToggleChat
                   ELSE UNCHANGED << chat_dialog, dialogs, messages,
                                     loaded_count, waiting_for_response,
                                     pending_worker, pending_request_text,
                                     typing_indicator >>
       ELSE UNCHANGED << press_pos, press_time, chat_dialog, dialogs,
                         messages, loaded_count, waiting_for_response,
                         pending_worker, pending_request_text,
                         typing_indicator >>
    /\ UNCHANGED mono
    /\ ClickFrame

\* time.monotonic() advances
ClickPass ==
    /\ mono < MaxMono
    /\ mono' = mono + ClickQuantum
    /\ last_op' = "pass"
    /\ UNCHANGED << press_pos, press_time, mouse_event, dialogs >>
    /\ UNCHANGED << variant, pos_arg, saved_pos >>
    /\ UNCHANGED << gifVars, gtkVars, chatVars, startVars, ollamaVars,
                    restVars >>

InitClick ==
    /\ InitChatIdle
    /\ history_file \in OldHistories
    /\ history_messages = 0
    /\ InitRun("qt", None, None)
    /\ IdleQt
    /\ IdleGtk
    /\ IdleAux

NextClick ==
    \/ \E button \in Buttons, p \in ClickPoints : handle_press(button, p)
    \/ \E button \in Buttons, p \in ClickPoints : handle_release(button, p)
    \/ ClickPass
    \/ closeEvent
    \/ on_window_destroyed

SpecClick == InitClick /\ [][NextClick]_vars

\* the release seen in this step ends a click: left button, a press on
\* record, less than 0.25 s and less than 6 px away from it
ReleasedAsClick ==
    /\ mouse_event'.button = "left"
    /\ press_time # None
    /\ press_pos # None
    /\ mono - press_time[1] < 250
    /\ manhattanLength(mouse_event'.pos, press_pos[1]) < 6

\* C25: a press/release on the cat toggles the chat exactly when it is a
\* click.  A toggle creates and shows the dialog when none exists, hides a
\* visible one and shows a hidden one (so two toggles restore the
\* visibility); no more than one dialog exists at any time; closing the
\* dialog only hides it, and hiding keeps its messages.
C25_ClickTogglesChat ==
    /\ [](dialogs <= 1)
    /\ [][ /\ last_op' = "release"
             => IF ReleasedAsClick
                THEN /\ chat_dialog = "none"
                          => chat_dialog' = "visible" /\ dialogs' = 1
                     /\ chat_dialog = "visible"
                          => /\ chat_dialog' = "hidden"
                             /\ UNCHANGED << dialogs, messages >>
                     /\ chat_dialog = "hidden"
                          => /\ chat_dialog' = "visible"
                             /\ UNCHANGED << dialogs, messages >>
                ELSE UNCHANGED << chat_dialog, dialogs, messages >>
           /\ last_op' = "press"
                => UNCHANGED << chat_dialog, dialogs, messages >>
           /\ last_op' = "closeEvent"
                => /\ chat_dialog' = "hidden"
                   /\ UNCHANGED << dialogs, messages >> ]_vars

\* a release 125 ms after the press and 5 px away from it, after which the
\* one dialog is hidden with the two messages it loaded
C25_Witness ==
    /\ last_op = "release"
    /\ mouse_event = [button |-> "left", pos |-> << 3, 2 >>]
    /\ mono = ClickQuantum
    /\ chat_dialog = "hidden"
    /\ dialogs = 1
    /\ Len(messages) = 2

\* the lines history.txt holds for the entries e[first..Len(e)]
RECURSIVE StoredLines(_, _)
StoredLines(entries, first) ==
    IF first > Len(entries) THEN << >>
    ELSE append_history_entry(<< >>, entries[first].role, entries[first].text,
                              entries[first].timestamp)
         \o StoredLines(entries, first + 1)

\* the {{history}} value the claim names: the last n of the stored entries
LatestMessages(entries, n) ==
    IF n <= 0 \/ entries = << >>
    THEN << << "No history available." >> >>
    ELSE StoredLines(entries, Max(1, Len(entries) - n + 1))

\* C26: the system prompt handed to the worker of an accepted request holds,
\* for {{history}}, the latest history_messages messages stored in the
\* history file (counting the request just stored, or not counting it), and
\* 'No history available.' when there are none or the limit is <= 0.
C26_PromptHoldsLatestMessages ==
    [][ last_op' = "send_accepted"
          => LET prompt == workers'[Len(workers')].system_prompt
                 before == parse_history_file(history_file)
                 after  == parse_history_file(history_file')
             IN  \/ prompt.history = LatestMessages(after, history_messages)
                 \/ prompt.history = LatestMessages(before, history_messages)
      ]_vars

(***************************************************************************)
(* SpecRound: append_history_entry and parse_history_file on one file.     *)
(***************************************************************************)
\* the texts appended: one line, two lines, a trailing newline, the empty
\* text, and a text whose second line reads like a header
RoundTexts ==
    { << << "hi" >> >>,
      << << "a" >>, << "b" >> >>,
      << << "a" >>, << >> >>,
      << << >> >>,
      << << "x" >>, HeaderLine("U", "RESPONSE") >> }

RoundTimestamps == { "T", "U" }

\* only the history file functions run
RoundFrame ==
    UNCHANGED << gifVars, gtkVars, runVars, chatVars, startVars, ollamaVars,
                 clickVars, envVars, sliceVars, scaleVars >>

\* append_history_entry(path, role, text, timestamp), then
\* parse_history_file(path)
append_and_parse(role, text, timestamp) ==
    /\ Len(hist_entries) < MaxEntries
    /\ hist_entries' = Append(hist_entries,
                              [role |-> role, text |-> text,
                               timestamp |-> timestamp])
    /\ hist_file' = append_history_entry(hist_file, role, text, timestamp)
    /\ hist_parsed' = parse_history_file(hist_file')
    /\ RoundFrame

\* the file is removed
remove_history ==
    /\ hist_entries # << >>
    /\ hist_entries' = << >>
    /\ hist_file' = << >>
    /\ hist_parsed' = << >>
    /\ RoundFrame

InitRound ==
    /\ IdleRound
    /\ InitChatIdle
    /\ history_file = << >>
    /\ history_messages = 0
    /\ InitRun("qt", None, None)
    /\ IdleQt
    /\ IdleGtk
    /\ IdleStart
    /\ IdleOllama
    /\ IdleClick
    /\ IdleEnv
    /\ IdleSlice
    /\ IdleScale

NextRound ==
    \/ \E role \in { "user", "cat" }, text \in RoundTexts,
          timestamp \in RoundTimestamps :
           append_and_parse(role, text, timestamp)
    \/ remove_history

SpecRound == InitRound /\ [][NextRound]_vars

\* C27: parse_history_file returns what append_history_entry was given: as
\* many entries, in the same order, each with its role, its text and its
\* timestamp, for every text appended.
C27_HistoryRoundTrips == hist_parsed = hist_entries

(***************************************************************************)
(* SpecEnv: load_env_file (src/mycat/llm_prompt.py).  A line of a .env     *)
(* file is a sequence of tokens; " ", "#", "=" and the quotes are tokens.  *)
(***************************************************************************)
EnvKeys == { "MYCAT_ENV_FILE", "A", "B" }

\* the candidates besides $MYCAT_ENV_FILE: Path.cwd() / ".env" and the .env
\* next to the package
CWD_ENV == "./.env"

REPO_ENV == "repo/.env"

EnvPaths == { "/o/.env", CWD_ENV, REPO_ENV }

\* the .env files found on the disk
EnvFileSet ==
    { << << "A", "=", "1" >> >>,
      << << " ", "A", " ", "=", " ", "\"", "2", "\"", " " >>,
         << "B", "=", "2", "#", "c" >> >>,
      << << "#", "A", "=", "3" >>, << "B", "=", "3" >>, << "A", "=", "4" >>,
         << "A", "=", "5" >>, << "B" >> >> }

\* a file written while the process runs
LateFile == << << "B", "=", "9" >> >>

\* the index of the first token c in line, 0 if there is none
FirstIndex(line, c) ==
    IF \E i \in 1..Len(line) : line[i] = c
    THEN CHOOSE i \in 1..Len(line) :
             line[i] = c /\ \A j \in 1..(i - 1) : line[j] # c
    ELSE 0

\* str.strip(c) for one character c
RECURSIVE StripChar(_, _)
StripChar(text, c) ==
    IF text # << >> /\ Head(text) = c THEN StripChar(Tail(text), c)
    ELSE IF text # << >> /\ text[Len(text)] = c
    THEN StripChar(SubSeq(text, 1, Len(text) - 1), c)
    ELSE text

\* apply_env: one line, None when it is skipped, else the key and the value
ParseEnvLine(raw_line) ==
    LET line    == Strip(raw_line)
        hash    == FirstIndex(line, "#")
        cut     == IF hash > 0 THEN Strip(SubSeq(line, 1, hash - 1)) ELSE line
        eq      == FirstIndex(cut, "=")
        key     == Strip(SubSeq(cut, 1, eq - 1))
        value   == Strip(SubSeq(cut, eq + 1, Len(cut)))
    IN  IF line = << >> THEN None
        ELSE IF Head(line) = "#" THEN None
        ELSE IF eq = 0 THEN None
        ELSE IF key = << >> THEN None
        ELSE Some([key   |-> key[1],
                   value |-> StripChar(StripChar(value, "\""), "'")])

\* a faulty os.environ.setdefault that replaces the value
setdefault_Overwrite(env, key, value) == [env EXCEPT ![key] = Some(value)]

\* os.environ.setdefault(key, value)
setdefault(env, key, value) ==
    IF env[key] # None THEN env ELSE [env EXCEPT ![key] = Some(value)]

\* apply_env(path): the lines of the file, in order
RECURSIVE apply_env(_, _)
apply_env(env, lines) ==
    IF lines = << >> THEN env
    ELSE LET parsed == ParseEnvLine(Head(lines))
         IN  apply_env(IF parsed = None THEN env
                       ELSE setdefault(env, parsed[1].key, parsed[1].value),
                       Tail(lines))

\* the candidates of load_env_file, in order
Candidates(env) ==
    (IF env["MYCAT_ENV_FILE"] # None /\ env["MYCAT_ENV_FILE"][1] # << >>
     THEN << env["MYCAT_ENV_FILE"][1][1] >> ELSE << >>)
    \o << CWD_ENV, REPO_ENV >>

\* the loop over the candidates: skip what was seen and what does not exist
RECURSIVE ApplyCandidates(_, _, _, _)
ApplyCandidates(env, candidates, seen, files) ==
    IF candidates = << >> THEN env
    ELSE LET candidate == Head(candidates)
         IN  IF candidate \in seen \/ files[candidate] = None
             THEN ApplyCandidates(env, Tail(candidates), seen, files)
             ELSE ApplyCandidates(apply_env(env, files[candidate][1]),
                                  Tail(candidates), seen \cup { candidate },
                                  files)

EnvFrame ==
    UNCHANGED << gifVars, gtkVars, runVars, chatVars, startVars, ollamaVars,
                 clickVars, roundVars, sliceVars, scaleVars >>

\* load_env_file()
load_env_file ==
    /\ load_calls < MaxLoads
    /\ load_calls' = load_calls + 1
    /\ env_loaded' = TRUE
    /\ environ' = IF env_loaded THEN environ
                  ELSE ApplyCandidates(environ, Candidates(environ), { },
                                       env_files)
    /\ UNCHANGED << env_files, environ_start >>
    /\ EnvFrame

\* a .env file is written while the process runs
write_env_file(path) ==
    /\ load_calls > 0
    /\ env_files[path] # Some(LateFile)
    /\ env_files' = [env_files EXCEPT ![path] = Some(LateFile)]
    /\ UNCHANGED << environ, env_loaded, environ_start, load_calls >>
    /\ EnvFrame

InitEnv ==
    /\ environ \in { [k \in EnvKeys |->
                         IF k = "MYCAT_ENV_FILE" THEN f
                         ELSE IF k = "A" THEN a ELSE None] :
                       f \in { None, Some(<< "/o/.env" >>), Some(<< CWD_ENV >>) },
                       a \in { None, Some(<< "0" >>) } }
    /\ environ_start = environ
    /\ env_loaded = FALSE
    /\ load_calls = 0
    /\ env_files \in [EnvPaths -> { None } \cup { Some(f) : f \in EnvFileSet }]
    /\ InitChatIdle
    /\ history_file = << >>
    /\ history_messages = 0
    /\ InitRun("qt", None, None)
    /\ IdleQt
    /\ IdleGtk
    /\ IdleStart
    /\ IdleOllama
    /\ IdleClick
    /\ IdleRound
    /\ IdleSlice
    /\ IdleScale

NextEnv ==
    \/ load_env_file
    \/ \E path \in EnvPaths : write_env_file(path)

SpecEnv == InitEnv /\ [][NextEnv]_vars

\* the values file `lines` gives key, in the order of its lines
Definitions(lines, key) ==
    LET hits == { i \in 1..Len(lines) :
                    /\ ParseEnvLine(lines[i]) # None
                    /\ ParseEnvLine(lines[i])[1].key = key }
    IN  IF hits = { } THEN None
        ELSE Some(ParseEnvLine(
                 lines[CHOOSE i \in hits : \A j \in hits : i <= j])[1].value)

\* the value of the earliest existing candidate that defines key: the file
\* $MYCAT_ENV_FILE named at the start of the call, then ./.env, then the
\* repository .env
EarliestCandidate(key) ==
    LET named == IF environ["MYCAT_ENV_FILE"] # None
                 THEN env_files[environ["MYCAT_ENV_FILE"][1][1]] ELSE None
        def(f) == IF f = None THEN None ELSE Definitions(f[1], key)
    IN  IF def(named) # None THEN def(named)
        ELSE IF def(env_files[CWD_ENV]) # None THEN def(env_files[CWD_ENV])
        ELSE def(env_files[REPO_ENV])

\* C28: the first call of load_env_file leaves every variable that is set as
\* it is and gives every other variable the value of the earliest candidate
\* that defines it ($MYCAT_ENV_FILE, ./.env, the repository .env); every
\* later call changes nothing, whatever the files hold by then.
C28_EnvLoadedOnce ==
    [][ load_calls' = load_calls + 1
          => IF load_calls = 0
             THEN \A key \in EnvKeys :
                      environ'[key] = IF environ[key] # None THEN environ[key]
                                      ELSE EarliestCandidate(key)
             ELSE environ' = environ ]_vars

\* after a second call: A was preset and kept, B comes from the file that
\* $MYCAT_ENV_FILE names although ./.env defines it too and although that
\* file was rewritten before the second call
C28_Witness ==
    /\ load_calls = 2
    /\ environ_start["A"] = Some(<< "0" >>)
    /\ environ["A"] = Some(<< "0" >>)
    /\ environ_start["MYCAT_ENV_FILE"] = Some(<< "/o/.env" >>)
    /\ environ["B"] = Some(<< "2" >>)
    /\ env_files["/o/.env"] = Some(LateFile)
    /\ env_files[CWD_ENV] # None
    /\ Definitions(env_files[CWD_ENV][1], "B") = Some(<< "3" >>)

(***************************************************************************)
(* SpecSlice: slice_sprite_to_pixbufs (src/main.py) on a loadable sprite.  *)
(***************************************************************************)
SpriteWidths == 1..6

SpriteHeights == { 1, 3, 5 }

\* --size
TargetWidths == { 0 - 1, 0, 1, 3, 7 }

\* round(num / den) of Python 3 for num >= 0, den > 0: ties go to the even
\* integer
RoundHalfEven(num, den) ==
    LET q == num \div den
        r == num % den
    IN  IF 2 * r < den THEN q
        ELSE IF 2 * r > den THEN q + 1
        ELSE IF q % 2 = 0 THEN q ELSE q + 1

\* the body of slice_sprite_to_pixbufs for a sprite of sw x sh pixels: the
\* two sub-pixbufs (src_w x src_h) and the size they are scaled to
SlicedPixbufs(sw, sh, target_arg) ==
    LET frame_w      == sw \div 2
        frame_h      == sh
        target_width == IF target_arg <= 0 THEN frame_w ELSE target_arg
        target_height == Max(1, RoundHalfEven(frame_h * target_width, frame_w))
    IN  IF frame_w = 0 THEN Raised("ZeroDivisionError")
        ELSE Returned([open   |-> [src_w |-> frame_w, src_h |-> frame_h,
                                   w |-> target_width, h |-> target_height],
                       closed |-> [src_w |-> sw - frame_w, src_h |-> frame_h,
                                   w |-> target_width, h |-> target_height]])

SliceFrame ==
    UNCHANGED << gifVars, gtkVars, runVars, chatVars, startVars, ollamaVars,
                 clickVars, roundVars, envVars, scaleVars >>

\* slice_sprite_to_pixbufs(sprite_path, target_width)
slice_sprite ==
    /\ sprite_in # None
    /\ slice_out = None
    /\ slice_out' = Some(SlicedPixbufs(sprite_in[1].w, sprite_in[1].h,
                                       sprite_in[1].target_width))
    /\ UNCHANGED sprite_in
    /\ SliceFrame

SliceInputs ==
    { [w |-> w, h |-> h, target_width |-> t] :
        w \in SpriteWidths, h \in SpriteHeights, t \in TargetWidths }

\* the program is run on another sprite
next_sprite ==
    \E in \in SliceInputs :
        /\ slice_out # None
        /\ sprite_in' = Some(in)
        /\ slice_out' = None
        /\ SliceFrame

InitSlice ==
    /\ sprite_in \in { Some(in) : in \in SliceInputs }
    /\ slice_out = None
    /\ InitChatIdle
    /\ history_file = << >>
    /\ history_messages = 0
    /\ InitRun("gtk", None, None)
    /\ IdleQt
    /\ IdleGtk
    /\ IdleStart
    /\ IdleOllama
    /\ IdleClick
    /\ IdleRound
    /\ IdleEnv
    /\ IdleScale

NextSlice ==
    \/ slice_sprite
    \/ next_sprite

SpecSlice == InitSlice /\ [][NextSlice]_vars

\* C29: for every sprite width the call returns two frames cut as equal
\* halves of the sheet (each sprite_width/2 wide and of the full height, the
\* open eyes on the left), both scaled to target_width x
\* max(1, round(frame_height * target_width / frame_width)), where a
\* target_width <= 0 stands for the width of a half.
C29_EqualHalves ==
    slice_out # None
        => LET in  == sprite_in[1]
               out == slice_out[1]
               fw  == in.w \div 2
               tw  == IF in.target_width <= 0 THEN fw ELSE in.target_width
           IN  /\ ~out.raised
               /\ out.value.open.src_w = fw
               /\ out.value.closed.src_w = fw
               /\ out.value.open.src_h = in.h
               /\ out.value.closed.src_h = in.h
               /\ out.value.open.w = tw /\ out.value.closed.w = tw
               /\ out.value.open.h = out.value.closed.h
               /\ out.value.open.h
                      = Max(1, RoundHalfEven(in.h * tw, fw))

(***************************************************************************)
(* SpecScale: scale_pixmap_if_needed (src/mycat/main.py).                  *)
(***************************************************************************)
PixmapWidths == 1..8

PixmapHeights == 1..8

\* (max_width, max_height)
ScaleLimits == { << 3, 5 >>, << 4, 4 >> }

ScaleInputs ==
    { [w |-> w, h |-> h, max_width |-> l[1], max_height |-> l[2]] :
        w \in PixmapWidths, h \in PixmapHeights, l \in ScaleLimits }

ScaleFrame ==
    UNCHANGED << gifVars, gtkVars, runVars, chatVars, startVars, ollamaVars,
                 clickVars, roundVars, envVars, sliceVars >>

\* scale_pixmap_if_needed(pixmap, max_width, max_height)
scale_pixmap ==
    /\ pixmap_in # None
    /\ scale_out = None
    /\ scale_out' =
           Some([requested |-> RequestedSize(pixmap_in[1].w, pixmap_in[1].h,
                                             pixmap_in[1].max_width,
                                             pixmap_in[1].max_height),
                 pixmap |-> scale_pixmap_if_needed(pixmap_in[1].w,
                                                   pixmap_in[1].h,
                                                   pixmap_in[1].max_width,
                                                   pixmap_in[1].max_height)])
    /\ UNCHANGED pixmap_in
    /\ ScaleFrame

\* the next first frame
next_pixmap ==
    \E in \in ScaleInputs :
        /\ scale_out # None
        /\ pixmap_in' = Some(in)
        /\ scale_out' = None
        /\ ScaleFrame

InitScale ==
    /\ pixmap_in \in { Some(in) : in \in ScaleInputs }
    /\ scale_out = None
    /\ InitChatIdle
    /\ history_file = << >>
    /\ history_messages = 0
    /\ InitRun("qt", None, None)
    /\ IdleQt
    /\ IdleGtk
    /\ IdleStart
    /\ IdleOllama
    /\ IdleClick
    /\ IdleRound
    /\ IdleEnv
    /\ IdleSlice

NextScale ==
    \/ scale_pixmap
    \/ next_pixmap

SpecScale == InitScale /\ [][NextScale]_vars

\* the pixmap is within the limits
Fits(in) == in.w <= in.max_width /\ in.h <= in.max_height

\* the size is (floor(w*s), floor(h*s)) for s = min(max_width/w, max_height/h)
FloorScaled(in, size) ==
    IF in.max_width * in.h <= in.max_height * in.w
    THEN /\ size.w = in.max_width
         /\ size.h * in.w <= in.h * in.max_width
         /\ in.h * in.max_width < (size.h + 1) * in.w
    ELSE /\ size.h = in.max_height
         /\ size.w * in.h <= in.w * in.max_height
         /\ in.w * in.max_height < (size.w + 1) * in.h

\* C30 (as stated): a pixmap within the limits is returned unchanged; any
\* other comes back within the limits, at least 1 pixel wide and high, and
\* the size asked for is (floor(w*s), floor(h*s)).
C30_ScaledWithinLimits ==
    scale_out # None
        => LET in  == pixmap_in[1]
               out == scale_out[1]
           IN  IF Fits(in) THEN out.pixmap = [w |-> in.w, h |-> in.h]
               ELSE /\ out.pixmap.w <= in.max_width
                    /\ out.pixmap.h <= in.max_height
                    /\ out.pixmap.w >= 1
                    /\ out.pixmap.h >= 1
                    /\ FloorScaled(in, out.requested)

====
